---------------------------- MODULE Spec2Model ----------------------------
(***************************************************************************)
(* ldap_exporter: the metric translation and scrape engine.                *)
(*                                                                         *)
(*   - strconv.ParseUint / strconv.ParseFloat / float64(uint64) as used by *)
(*     CounterMetricAttribute.Parse and GaugeMetricAttribute.Parse         *)
(*   - do_the_translation_thing, buildOrderedLabels, Parse                 *)
(*   - MetricsSource.scrapeMetrics, Exporter.scrape, Exporter.Collect      *)
(*   - the configuration loader (LoadConfig and the UnmarshalYAML hooks)   *)
(*                                                                         *)
(* Strings are TLA+ strings; a raw directory value is read character by    *)
(* character where the code parses it.                                     *)
(***************************************************************************)
EXTENDS Integers, Sequences, FiniteSets, TLC

(***************************************************************************)
(* Characters and decimal digit strings                                    *)
(***************************************************************************)

\* The i-th byte of s, as a one-character string.
Char(s, i) == SubSeq(s, i, i)

Digits == <<"0", "1", "2", "3", "4", "5", "6", "7", "8", "9">>

IsDigit(c) == \E d \in 1..10 : Digits[d] = c

\* c - '0'
DigitVal(c) == (CHOOSE d \in 1..10 : Digits[d] = c) - 1

DigitChar(n) == Digits[n + 1]

AllDigits(s) == \A i \in 1..Len(s) : IsDigit(Char(s, i))

RECURSIVE StripZeros(_)
\* A digit string without its leading zeros ("" stands for zero).
StripZeros(s) ==
    IF Len(s) > 0 /\ Char(s, 1) = "0" THEN StripZeros(SubSeq(s, 2, Len(s))) ELSE s

RECURSIVE StripTrailingZeros(_)
StripTrailingZeros(s) ==
    IF Len(s) > 0 /\ Char(s, Len(s)) = "0"
    THEN StripTrailingZeros(SubSeq(s, 1, Len(s) - 1))
    ELSE s

RECURSIVE Zeros(_)
Zeros(n) ==
    IF n <= 0 THEN ""
    ELSE IF n % 2 = 1 THEN "0" \o Zeros(n - 1)
    ELSE LET h == Zeros(n \div 2) IN h \o h

RECURSIVE LexLess(_, _)
\* a < b for digit strings of the same length.
LexLess(a, b) ==
    IF Len(a) = 0 THEN FALSE
    ELSE IF DigitVal(Char(a, 1)) # DigitVal(Char(b, 1))
         THEN DigitVal(Char(a, 1)) < DigitVal(Char(b, 1))
         ELSE LexLess(SubSeq(a, 2, Len(a)), SubSeq(b, 2, Len(b)))

\* a < b for digit strings without leading zeros.
NatLess(a, b) == Len(a) < Len(b) \/ (Len(a) = Len(b) /\ LexLess(a, b))

\* A natural number below 2^66 is held in three limbs of LimbBits bits,
\* most significant first (TLC's integers are 32 bits wide).
LimbBits == 66 \div 3

LimbBase == 2 ^ LimbBits

\* 10*n + d on limbs.
MulAdd10(n, d) ==
    LET lo  == (n[3] * 10) + d
        mid == (n[2] * 10) + (lo \div LimbBase)
        hi  == (n[1] * 10) + (mid \div LimbBase)
    IN  <<hi, mid % LimbBase, lo % LimbBase>>

RECURSIVE LimbsOf(_)
\* The value of a digit string (at most 19 digits, or 20 below 2^66).
LimbsOf(s) ==
    IF Len(s) = 0 THEN <<0, 0, 0>>
    ELSE MulAdd10(LimbsOf(SubSeq(s, 1, Len(s) - 1)), DigitVal(Char(s, Len(s))))

\* n \div 10 and n % 10 on limbs.
DivMod10(n) ==
    LET hi  == n[1]
        mid == ((hi % 10) * LimbBase) + n[2]
        lo  == ((mid % 10) * LimbBase) + n[3]
    IN  [q |-> <<hi \div 10, mid \div 10, lo \div 10>>, r |-> lo % 10]

RECURSIVE DecimalOf(_)
\* The digit string of a limb value, without leading zeros ("" for zero).
DecimalOf(n) ==
    IF n = <<0, 0, 0>> THEN ""
    ELSE LET dm == DivMod10(n) IN DecimalOf(dm.q) \o DigitChar(dm.r)

\* The 3*LimbBits bits of a limb value, most significant first.
BitsOf(n) ==
    [i \in 1..(3 * LimbBits) |->
        (n[((i - 1) \div LimbBits) + 1] \div (2 ^ (LimbBits - 1 - ((i - 1) % LimbBits)))) % 2]

FromBits(b) ==
    LET limb(k) == LET w == [j \in 1..LimbBits |->
                               b[((k - 1) * LimbBits) + j] * (2 ^ (LimbBits - j))]
                       sum[j \in 0..LimbBits] == IF j = 0 THEN 0 ELSE sum[j - 1] + w[j]
                   IN  sum[LimbBits]
    IN  <<limb(1), limb(2), limb(3)>>

\* The width of a float64 significand.
MantissaBits == 53

\* b with its bits after position last cleared.
KeepBits(b, last) == [i \in 1..Len(b) |-> IF i <= last THEN b[i] ELSE 0]

\* KeepBits(b, last) plus one unit in position last: the trailing ones of
\* the kept part are cleared and the zero before them is set.
IncBits(b, last) ==
    LET zs == {i \in 1..last : b[i] = 0}
        z  == CHOOSE i \in zs : \A j \in zs : j <= i
    IN  [i \in 1..Len(b) |-> IF i < z THEN b[i] ELSE IF i = z THEN 1 ELSE 0]

\* Round the bits b, whose last kept position is last, ties to even.
RoundAt(b, last) ==
    IF last >= Len(b) THEN b
    ELSE IF b[last + 1] = 1 /\ (b[last] = 1 \/ \E i \in (last + 2)..Len(b) : b[i] = 1)
         THEN IncBits(b, last)
         ELSE KeepBits(b, last)

\* Round the bits b to MantissaBits significant bits.
RoundBits(b) ==
    LET ones == {i \in 1..Len(b) : b[i] = 1}
    IN  IF ones = {} THEN b
        ELSE RoundAt(b, (CHOOSE i \in ones : \A j \in ones : i <= j) + MantissaBits - 1)

\* Round a limb value to MantissaBits significant bits, ties to even: what
\* the conversion float64(x) does to a uint64 x.
RoundToFloat64(n) == FromBits(RoundBits(BitsOf(n)))

\* float64(x) of a natural number x given as a digit string without leading
\* zeros: the nearest float64, as the digit string of its exact value.
Float64OfNat(s) == DecimalOf(RoundToFloat64(LimbsOf(s)))

(***************************************************************************)
(* strconv.ParseUint(s, 10, 64) and strconv.ParseFloat(s, 64)              *)
(*                                                                         *)
(* A float64 is written as a canonical decimal: an optional "-", the       *)
(* integer digits without leading zeros ("0" for none), and, if there is a *)
(* fraction, "." and the fraction digits without trailing zeros.  The      *)
(* decimal stands for the float64 nearest to it; an integer below 2^64 is  *)
(* rounded to that float64 (Float64OfNat).  Infinities and NaN are "+Inf", *)
(* "-Inf" and "NaN".                                                       *)
(***************************************************************************)

MaxUint64 == "18446744073709551615"

Canonical(neg, int, frac) ==
    (IF neg THEN "-" ELSE "")
        \o (IF int = "" THEN "0" ELSE int)
        \o (IF frac = "" THEN "" ELSE "." \o frac)

\* strconv.ParseUint(s, 10, 64): digits only (no sign, no underscore in base
\* 10), at least one, and the value at most 2^64 - 1.
ParseUint(s) ==
    IF Len(s) = 0 \/ ~AllDigits(s) THEN [err |-> TRUE, val |-> ""]
    ELSE LET v == StripZeros(s)
         IN  IF NatLess(MaxUint64, v) THEN [err |-> TRUE, val |-> ""]
             ELSE [err |-> FALSE, val |-> v]

\* float64(x) for the uint64 ParseUint returned, as a canonical decimal.
Float64OfUint(v) == Canonical(FALSE, Float64OfNat(v), "")

\* The spellings of the special values that strconv's special() accepts
\* (case-insensitively; the usual spellings are listed).
SpecialFloats ==
    [s \in {"inf", "Inf", "INF", "+inf", "+Inf", "+INF",
            "infinity", "Infinity", "+infinity", "+Infinity"} |-> "+Inf"]
    @@ [s \in {"-inf", "-Inf", "-INF", "-infinity", "-Infinity"} |-> "-Inf"]
    @@ [s \in {"nan", "NaN", "NAN"} |-> "NaN"]

\* The largest decimal exponent of a finite float64 (1.797...e308), and the
\* smallest of a nonzero one (4.9...e-324).
MaxDecimalExponent == 308

MinDecimalExponent == -324

RECURSIVE SmallNat(_)
\* The value of a short digit string.
SmallNat(s) ==
    IF Len(s) = 0 THEN 0
    ELSE 10 * SmallNat(SubSeq(s, 1, Len(s) - 1)) + DigitVal(Char(s, Len(s)))

FloatFailed == [err |-> TRUE, val |-> ""]

\* The digits of a float, already shifted and stripped, as a float64.
FinishFloat(neg, ci, cf) ==
    IF cf = "" /\ ~NatLess(MaxUint64, ci)
    THEN [err |-> FALSE, val |-> Canonical(neg, Float64OfNat(ci), "")]
    ELSE [err |-> FALSE, val |-> Canonical(neg, ci, cf)]

\* The digits all with the decimal point after position point (which may
\* lie before or after them); mag is the decimal exponent of the first
\* significant digit, big an exponent beyond every float64.
ShiftPoint(neg, all, point, mag, big, bigNeg) ==
    IF StripZeros(all) = "" \/ (big /\ bigNeg) \/ mag < MinDecimalExponent
    THEN [err |-> FALSE, val |-> Canonical(neg, "", "")]
    ELSE IF big \/ mag > MaxDecimalExponent THEN FloatFailed
    ELSE FinishFloat(neg,
            StripZeros(IF point <= 0 THEN ""
                       ELSE IF point >= Len(all) THEN all \o Zeros(point - Len(all))
                       ELSE SubSeq(all, 1, point)),
            StripTrailingZeros(IF point <= 0 THEN Zeros(0 - point) \o all
                               ELSE IF point >= Len(all) THEN ""
                               ELSE SubSeq(all, point + 1, Len(all))))

\* The mantissa ipart.fpart times ten to the e.
MakeFloat(neg, ipart, fpart, e, big, bigNeg) ==
    ShiftPoint(neg, ipart \o fpart, Len(ipart) + e,
               Len(ipart) + e - (Len(ipart \o fpart) - Len(StripZeros(ipart \o fpart))) - 1,
               big, bigNeg)

\* The exponent part rest of a float: empty, or (e|E) [sign] digits.
ExponentOK(rest) ==
    \/ Len(rest) = 0
    \/ /\ Char(rest, 1) \in {"e", "E"}
       /\ LET eDig == SubSeq(rest, IF Len(rest) > 1 /\ Char(rest, 2) \in {"+", "-"}
                                   THEN 3 ELSE 2, Len(rest))
          IN  Len(eDig) > 0 /\ AllDigits(eDig)

ExponentNeg(rest) == Len(rest) > 1 /\ Char(rest, 2) = "-"

ExponentDigits(rest) ==
    StripZeros(SubSeq(rest, IF Len(rest) > 1 /\ Char(rest, 2) \in {"+", "-"} THEN 3 ELSE 2,
                      Len(rest)))

\* An exponent of more than four digits is beyond every float64.
ExponentBig(rest) == Len(rest) > 0 /\ Len(ExponentDigits(rest)) > 4

ExponentOf(rest) ==
    IF Len(rest) = 0 \/ ExponentBig(rest) THEN 0
    ELSE (IF ExponentNeg(rest) THEN -1 ELSE 1) * SmallNat(ExponentDigits(rest))

\* The mantissa mant (digits and at most one ".", with a digit) and the
\* exponent part rest.
ParseParts(neg, mant, rest) ==
    LET dots == {i \in 1..Len(mant) : Char(mant, i) = "."}
        dot  == IF dots = {} THEN Len(mant) + 1 ELSE CHOOSE i \in dots : TRUE
    IN  IF Cardinality(dots) > 1 \/ Len(mant) = Cardinality(dots) \/ ~ExponentOK(rest)
        THEN FloatFailed
        ELSE MakeFloat(neg, SubSeq(mant, 1, dot - 1), SubSeq(mant, dot + 1, Len(mant)),
                       ExponentOf(rest), ExponentBig(rest), ExponentNeg(rest))

\* The mantissa runs up to the first byte that is no digit and no ".".
MantissaEnd(body) ==
    LET stops == {i \in 1..Len(body) : ~IsDigit(Char(body, i)) /\ Char(body, i) # "."}
    IN  IF stops = {} THEN Len(body)
        ELSE (CHOOSE i \in stops : \A j \in stops : i <= j) - 1

ParseUnsigned(neg, body, mEnd) ==
    ParseParts(neg, SubSeq(body, 1, mEnd), SubSeq(body, mEnd + 1, Len(body)))

ParseSigned(neg, body) == ParseUnsigned(neg, body, MantissaEnd(body))

\* strconv.ParseFloat(s, 64) on decimal syntax: [sign] digits [. digits]
\* [(e|E) [sign] digits], the whole string consumed.  Hexadecimal syntax
\* and digit-separating underscores are outside the modelled inputs.
ParseFloat(s) ==
    IF s \in DOMAIN SpecialFloats THEN [err |-> FALSE, val |-> SpecialFloats[s]]
    ELSE ParseSigned(Len(s) > 0 /\ Char(s, 1) = "-",
                     IF Len(s) > 0 /\ Char(s, 1) \in {"+", "-"}
                     THEN SubSeq(s, 2, Len(s)) ELSE s)

(***************************************************************************)
(* Metric attributes: descriptors, the template translator, Parse          *)
(*                                                                         *)
(* A map[string]string is a function from its keys; the nil map is the     *)
(* empty function.  A compiled template is described by what executing it  *)
(* does: whether it references a key the input map lacks (an error under   *)
(* missingkey=error), whether its rendered text decodes as a YAML list of  *)
(* translation results, and the results that list holds.                   *)
(***************************************************************************)

EmptyMap == <<>>

HasKey(m, k) == k \in DOMAIN m

\* The subsequence of s at the positions in keep.
RECURSIVE Selected(_, _, _)
Selected(s, keep, j) ==
    IF j > Len(s) THEN <<>>
    ELSE (IF j \in keep THEN <<s[j]>> ELSE <<>>) \o Selected(s, keep, j + 1)

\* The keys a map may hold, in the order the configuration document holds
\* them.
DocumentKeys == <<"cn", "ou", "uid", "loginCount", "status", "threads">>

\* The order a range loop visits the keys of the map m in.  A map of up to
\* eight keys is one bucket, visited from a random slot on, wrapping around:
\* offset is that slot.
RangeOrder(m, offset) ==
    LET keys == Selected(DocumentKeys,
                         {j \in 1..Len(DocumentKeys) : DocumentKeys[j] \in DOMAIN m}, 1)
    IN  [j \in 1..Len(keys) |-> keys[((j - 1 + offset) % Len(keys)) + 1]]

\* prometheus.NewDesc(fqName, help, variableLabels, constLabels)
NewDesc(name, help, labels, constant_labels) ==
    [fqName |-> name, help |-> help, variableLabels |-> labels,
     constLabels |-> constant_labels]

\* prometheus.NewConstMetric (client_golang v0.8.0): fails only when the
\* number of label values differs from the descriptor's variable labels.
NewConstMetric(desc, valueType, value, labelValues) ==
    IF Len(desc.variableLabels) # Len(labelValues)
    THEN [err |-> TRUE, metric |-> <<>>]
    ELSE [err |-> FALSE,
          metric |-> [desc |-> desc, valType |-> valueType, val |-> value,
                      labelValues |-> labelValues]]

\* translator == nil
NilTemplate == [nil |-> TRUE, missingKey |-> FALSE, yamlOK |-> TRUE, results |-> <<>>]

\* A compiled template rendering to a list of translation results.
Template(missingKey, yamlOK, results) ==
    [nil |-> FALSE, missingKey |-> missingKey, yamlOK |-> yamlOK, results |-> results]

\* type translationResult: Value, Labels, and X, the inline map that takes
\* every other key of the rendered object.
TranslationResult(value, labels, x) == [Value |-> value, Labels |-> labels, X |-> x]

NewCounterMetricAttribute(metric_name, labels, constant_labels, translator, help) ==
    [kind |-> "counter", translator |-> translator, labels |-> labels,
     Desc |-> NewDesc(metric_name, help, labels, constant_labels)]

NewGaugeMetricAttribute(metric_name, labels, constant_labels, translator, help) ==
    [kind |-> "gauge", translator |-> translator, labels |-> labels,
     Desc |-> NewDesc(metric_name, help, labels, constant_labels)]

\* An error value: nil, or an error whose message names the keys fields
\* (none, for every error but that of checkOverflow).
NoError == [err |-> FALSE, fields |-> {}]

Errorf == [err |-> TRUE, fields |-> {}]

\* The first error of a sequence of error values, nil if there is none.
FirstError(errors) ==
    IF \E i \in 1..Len(errors) : errors[i].err
    THEN errors[CHOOSE i \in 1..Len(errors) :
                    errors[i].err /\ \A j \in 1..(i - 1) : ~errors[j].err]
    ELSE NoError

\* checkOverflow without its test: never an error.
checkOverflowSilent(m) == NoError

\* checkOverflow(m, ctx): an error when the inline map holds any key; its
\* message lists the keys.
checkOverflow(m) == [err |-> m # {}, fields |-> m]

\* do_the_translation_thing(t, values).  The input map is built first, and
\* building it evaluates values[0]: with no value that is an index out of
\* range, a run-time panic.
do_the_translation_thing(t, values) ==
    IF Len(values) = 0 THEN [status |-> "panic", results |-> <<>>]
    ELSE IF t.missingKey THEN [status |-> "err", results |-> <<>>]
    ELSE IF ~t.yamlOK THEN [status |-> "err", results |-> <<>>]
    ELSE IF \E idx \in 1..Len(t.results) : checkOverflow(t.results[idx].X).err
         THEN [status |-> "err", results |-> <<>>]
    ELSE [status |-> "ok", results |-> t.results]

\* The first of label_sources holding label_name (0 when none does).
FirstSourceWith(label_name, label_sources) ==
    LET having == {i \in 1..Len(label_sources) : HasKey(label_sources[i], label_name)}
    IN  IF having = {} THEN 0 ELSE CHOOSE i \in having : \A j \in having : i <= j

\* The last of label_sources holding label_name (0 when none does).
LastSourceWith(label_name, label_sources) ==
    LET having == {i \in 1..Len(label_sources) : HasKey(label_sources[i], label_name)}
    IN  IF having = {} THEN 0 ELSE CHOOSE i \in having : \A j \in having : j <= i

\* buildOrderedLabels with the inner loop not left at the first source
\* found (no break): the last source wins.
buildOrderedLabelsLastWins(desc_labels, label_sources) ==
    IF \E result_idx \in 1..Len(desc_labels) :
           LastSourceWith(desc_labels[result_idx], label_sources) = 0
    THEN [err |-> TRUE, labels |-> <<>>]
    ELSE [err |-> FALSE,
          labels |-> [result_idx \in 1..Len(desc_labels) |->
                        LET label_name == desc_labels[result_idx]
                        IN  label_sources[LastSourceWith(label_name, label_sources)][label_name]]]

\* buildOrderedLabels(desc_labels, label_sources...)
buildOrderedLabels(desc_labels, label_sources) ==
    IF \E result_idx \in 1..Len(desc_labels) :
           FirstSourceWith(desc_labels[result_idx], label_sources) = 0
    THEN [err |-> TRUE, labels |-> <<>>]
    ELSE [err |-> FALSE,
          labels |-> [result_idx \in 1..Len(desc_labels) |->
                        LET label_name == desc_labels[result_idx]
                        IN  label_sources[FirstSourceWith(label_name, label_sources)][label_name]]]

ParseFailed == [status |-> "err", metrics |-> <<>>]

ParsePanicked == [status |-> "panic", metrics |-> <<>>]

\* One sample, or the failure of its label resolution or construction.
OneMetric(desc, valueType, value, labels) ==
    IF labels.err THEN [err |-> TRUE, metric |-> <<>>]
    ELSE NewConstMetric(desc, valueType, value, labels.labels)

\* The metrics so far followed by the rest of the loop.
MetricThen(metric, rest) ==
    IF metric.err \/ rest.status # "ok" THEN ParseFailed
    ELSE [status |-> "ok", metrics |-> <<metric.metric>> \o rest.metrics]

RECURSIVE TranslatedMetrics(_, _, _, _, _)
\* The loop over the translation results, from result k on: the first
\* failure abandons the metrics built so far.
TranslatedMetrics(a, valueType, values, extra_labels, k) ==
    IF k > Len(values) THEN [status |-> "ok", metrics |-> <<>>]
    ELSE MetricThen(
            OneMetric(a.Desc, valueType, values[k].Value,
                      buildOrderedLabels(a.labels, <<values[k].Labels, extra_labels>>)),
            TranslatedMetrics(a, valueType, values, extra_labels, k + 1))

\* TranslatedWith with the loop left after its first iteration.
TranslatedWithFirstOnly(a, valueType, extra_labels, values) ==
    IF values.status = "panic" THEN ParsePanicked
    ELSE IF values.status = "err" THEN ParseFailed
    ELSE TranslatedMetrics(a, valueType,
                           SubSeq(values.results, 1, IF Len(values.results) = 0 THEN 0 ELSE 1),
                           extra_labels, 1)

\* The translator branch from the return of do_the_translation_thing on.
TranslatedWith(a, valueType, extra_labels, values) ==
    IF values.status = "panic" THEN ParsePanicked
    ELSE IF values.status = "err" THEN ParseFailed
    ELSE TranslatedMetrics(a, valueType, values.results, extra_labels, 1)

\* The translator branch shared by both Parse methods.
ParseTranslated(a, valueType, extra_labels, entry) ==
    TranslatedWith(a, valueType, extra_labels,
                   do_the_translation_thing(a.translator, entry.Values))

\* The single sample of an attribute without translator.
SingleMetric(x, metric) ==
    IF x.err \/ metric.err THEN ParseFailed
    ELSE [status |-> "ok", metrics |-> <<metric.metric>>]

CounterSingle(c, extra_labels, x) ==
    SingleMetric(x, OneMetric(c.Desc, "CounterValue", Float64OfUint(x.val),
                              buildOrderedLabels(c.labels, <<extra_labels>>)))

\* CounterParse without the check of the number of values: the first value
\* is parsed whenever there is one.
CounterParseFirstValue(c, extra_labels, entry) ==
    IF c.translator.nil
    THEN IF Len(entry.Values) = 0 THEN ParseFailed
         ELSE CounterSingle(c, extra_labels, ParseUint(entry.Values[1]))
    ELSE ParseTranslated(c, "CounterValue", extra_labels, entry)

\* (c *CounterMetricAttribute) Parse(extra_labels, entry)
CounterParse(c, extra_labels, entry) ==
    IF c.translator.nil
    THEN IF Len(entry.Values) # 1 THEN ParseFailed
         ELSE CounterSingle(c, extra_labels, ParseUint(entry.Values[1]))
    ELSE ParseTranslated(c, "CounterValue", extra_labels, entry)

GaugeSingle(g, extra_labels, x) ==
    SingleMetric(x, OneMetric(g.Desc, "CounterValue", x.val,
                              buildOrderedLabels(g.labels, <<extra_labels>>)))

\* (g *GaugeMetricAttribute) Parse(extra_labels, entry).  Without a
\* translator the sample is built with prometheus.CounterValue.
GaugeParse(g, extra_labels, entry) ==
    IF g.translator.nil
    THEN IF Len(entry.Values) # 1 THEN ParseFailed
         ELSE GaugeSingle(g, extra_labels, ParseFloat(entry.Values[1]))
    ELSE ParseTranslated(g, "GaugeValue", extra_labels, entry)

\* MetricAttribute.Parse, dispatched on the dynamic type.
Parse(a, extra_labels, entry) ==
    IF a.kind = "counter" THEN CounterParse(a, extra_labels, entry)
    ELSE GaugeParse(a, extra_labels, entry)

\* ldap.EntryAttribute
EntryAttribute(name, values) == [Name |-> name, Values |-> values]

(***************************************************************************)
(* Metrics sources and the extraction of one search result                 *)
(*                                                                         *)
(* An entry is the ordered list of its attributes; a search result is the  *)
(* ordered list of its entries.                                            *)
(***************************************************************************)

\* The search scopes and alias policies of gopkg.in/ldap.v2.
ScopeBaseObject == 0

ScopeSingleLevel == 1

ScopeWholeSubtree == 2

NeverDerefAliases == 0

DerefInSearching == 1

DerefFindingBaseObj == 2

DerefAlways == 3

\* ldap.NewSearchRequest(BaseDN, Scope, DerefAliases, 0, 0, false, Filter,
\* Attributes, nil)
NewSearchRequest(baseDN, scope, deref, filter, attrs) ==
    [BaseDN |-> baseDN, Scope |-> scope, DerefAliases |-> deref,
     Filter |-> filter, Attributes |-> attrs]

\* The struct NewMetricsSource fills in, given the attribute list attrs its
\* two loops over the maps have built.
MetricsSource(searchDN, filter, scope, deref, attrs, metric_attributes, label_attributes) ==
    [SearchRequest    |-> NewSearchRequest(searchDN, scope, deref, filter, attrs),
     MetricAttributes |-> metric_attributes,
     LabelAttributes  |-> label_attributes]

\* The first loop of scrapeMetrics over one entry: every attribute that is a
\* label attribute must hold exactly one value; the value is stored under
\* the remapped label name (a later attribute overwrites an earlier one).
CollectLabels(m, e) ==
    LET isLabel(j) == HasKey(m.LabelAttributes, e[j].Name)
        labelIdx   == {j \in 1..Len(e) : isLabel(j)}
        names      == {m.LabelAttributes[e[j].Name] : j \in labelIdx}
        lastFor(n) == CHOOSE j \in labelIdx :
                         /\ m.LabelAttributes[e[j].Name] = n
                         /\ \A k \in labelIdx : m.LabelAttributes[e[k].Name] = n => k <= j
    IN  IF \E j \in labelIdx : Len(e[j].Values) # 1
        THEN [err |-> TRUE, labels |-> EmptyMap]
        ELSE [err |-> FALSE, labels |-> [n \in names |-> e[lastFor(n)].Values[1]]]

\* What a loop has sent followed by what the rest of it sends: the rest
\* runs only if the first part ended well.
SentThen(first, rest) ==
    IF first.status # "ok" THEN first
    ELSE [status |-> rest.status, out |-> first.out \o rest.out]

\* The metrics Parse returned are sent to ch; its failure ends the loop.
SendParsed(parsed) == [status |-> parsed.status, out |-> parsed.metrics]

RECURSIVE DispatchAttributesSkipping(_, _, _, _)
\* DispatchAttributes with continue for every attribute that is no metric
\* attribute, known or not.
DispatchAttributesSkipping(m, e, labels, j) ==
    IF j > Len(e) THEN [status |-> "ok", out |-> <<>>]
    ELSE IF ~HasKey(m.MetricAttributes, e[j].Name)
         THEN DispatchAttributesSkipping(m, e, labels, j + 1)
         ELSE SentThen(SendParsed(Parse(m.MetricAttributes[e[j].Name], labels, e[j])),
                       DispatchAttributesSkipping(m, e, labels, j + 1))

RECURSIVE DispatchAttributes(_, _, _, _)
\* The second loop of scrapeMetrics over one entry, from attribute j on:
\* what is sent to ch, and how the loop ends.  Samples already sent stay
\* sent when a later attribute fails.
DispatchAttributes(m, e, labels, j) ==
    IF j > Len(e) THEN [status |-> "ok", out |-> <<>>]
    ELSE IF ~HasKey(m.MetricAttributes, e[j].Name)
         THEN IF ~HasKey(m.LabelAttributes, e[j].Name)
              THEN [status |-> "err", out |-> <<>>]
              ELSE DispatchAttributes(m, e, labels, j + 1)
         ELSE SentThen(SendParsed(Parse(m.MetricAttributes[e[j].Name], labels, e[j])),
                       DispatchAttributes(m, e, labels, j + 1))

\* CheckLabels without the comparison of the two lengths.
CheckLabelsUncounted(m, e, collected) ==
    IF collected.err THEN [status |-> "err", out |-> <<>>]
    ELSE DispatchAttributes(m, e, collected.labels, 1)

\* The check between the two loops: the labels built must be as many as
\* the label attributes of the source.
CheckLabels(m, e, collected) ==
    IF collected.err THEN [status |-> "err", out |-> <<>>]
    ELSE IF Cardinality(DOMAIN collected.labels) # Cardinality(DOMAIN m.LabelAttributes)
         THEN [status |-> "err", out |-> <<>>]
    ELSE DispatchAttributes(m, e, collected.labels, 1)

\* The body of scrapeMetrics' loop for one entry e.
ScrapeEntry(m, e) == CheckLabels(m, e, CollectLabels(m, e))

RECURSIVE ScrapeEntries(_, _, _)
ScrapeEntries(m, entries, k) ==
    IF k > Len(entries) THEN [status |-> "ok", out |-> <<>>]
    ELSE SentThen(ScrapeEntry(m, entries[k]), ScrapeEntries(m, entries, k + 1))

\* (m *MetricsSource) scrapeMetrics(result, ch): the samples sent to ch, in
\* order, and whether it returned nil ("ok"), returned an error ("err") or
\* panicked ("panic").
scrapeMetrics(m, result) == ScrapeEntries(m, result, 1)

(***************************************************************************)
(* The exporter: state, configurations and directory contents              *)
(***************************************************************************)

VARIABLES
    metricsSources,  \* Exporter.metricsSources
    totalScrapes,    \* Exporter.totalScrapes (counter)
    totalErrors,     \* Exporter.totalErrors (counter)
    scrapeError,     \* Exporter.scrapeError (gauge)
    duration,        \* Exporter.duration (gauge): "unset" or "measured"
    pc,              \* where each Collect call stands
    idx,             \* the index of the source the loop of scrape is at
    failures,        \* the local failures of each running scrape
    result,          \* the search result each running scrape holds
    outstanding,     \* the Collect calls with a search outstanding on conn
    ch,              \* what each Collect call has sent to its channel
    issued,          \* the sources each scrape has issued a search for, in order
    answered,        \* what each of these searches returned
    errlog,          \* the sources each scrape has logged as failed (log.Errorf)
    history,         \* the errlog of every scrape that has returned, in order
    crashed,         \* the process has died of a panic
    parseCall,       \* the arguments of a call of MetricAttribute.Parse
    parseRet,        \* what that call returned
    scrapeCall,      \* the receiver and argument of a call of scrapeMetrics
    scrapeRet,       \* what that call sent and how it ended
    configData,      \* the configuration document handed to LoadConfig
    loadRuns,        \* what each run of LoadConfig on it returned, in order
    described        \* what the last call of Describe sent to its channel

scrapeVars == <<metricsSources, totalScrapes, totalErrors, scrapeError, duration,
                pc, idx, failures, result, outstanding, ch, issued, answered, errlog,
                history, crashed>>

parseVars == <<parseCall, parseRet>>

extractVars == <<scrapeCall, scrapeRet>>

loadVars == <<configData, loadRuns>>

describeVars == <<described>>

callVars == <<parseVars, extractVars, loadVars, describeVars>>

vars == <<scrapeVars, callVars>>

\* The goroutines that may call Collect.
Collectors == {"c1", "c2"}

\* The number of Collect calls a run is followed for.
MaxCycles == 2

\* A translator that splits a composite status into two labelled rows,
\*   - {value: 2, labels: {state: ok}}
\*   - {value: 5, labels: {state: fail}}
StatusTemplate ==
    Template(FALSE, TRUE,
             <<TranslationResult("2", "state" :> "ok", {}),
               TranslationResult("5", "state" :> "fail", {})>>)

\* The source of the configuration
\*   name: users, search: ou=people, attributes: {labels: {cn: user},
\*   metrics: {loginCount: {type: counter, metric_name: logins},
\*             status: {type: gauge, labels: [state], translator: ...}}}
UsersSource ==
    MetricsSource("ou=people", "(objectClass=*)", ScopeBaseObject, DerefAlways,
                  <<"loginCount", "status", "cn">>,
                  ("loginCount" :> NewCounterMetricAttribute(
                        "ldap_logins", <<"user">>, EmptyMap, NilTemplate, "No help provided"))
                  @@ ("status" :> NewGaugeMetricAttribute(
                        "ldap_users_status", <<"user", "state">>, EmptyMap, StatusTemplate,
                        "No help provided")),
                  "cn" :> "user")

\* The source of the configuration
\*   name: monitor, search: cn=monitor, attributes: {metrics: {threads: {type: gauge}}}
MonitorSource ==
    MetricsSource("cn=monitor", "(objectClass=*)", ScopeBaseObject, DerefAlways,
                  <<"threads">>,
                  "threads" :> NewGaugeMetricAttribute(
                        "ldap_monitor_threads", <<>>, EmptyMap, NilTemplate, "No help provided"),
                  EmptyMap)

\* The source lists the exporter is run with.
ExporterConfigs == {<<UsersSource, MonitorSource>>, <<MonitorSource, UsersSource>>}

\* What the directory may answer to the search of a source: the entries
\* under its base DN at the time of the search.  An attribute appears at
\* most once in an entry.
DirectoryAnswers(source) ==
    IF source.SearchRequest.BaseDN = "ou=people"
    THEN { <<>>,
           << <<EntryAttribute("cn", <<"alice">>), EntryAttribute("loginCount", <<"4">>)>> >>,
           << <<EntryAttribute("cn", <<"alice">>), EntryAttribute("loginCount", <<"4">>)>>,
              <<EntryAttribute("loginCount", <<"7">>)>> >>,
           << <<EntryAttribute("loginCount", <<"4">>), EntryAttribute("cn", <<"bob">>),
                EntryAttribute("status", <<"2 ok, 5 fail">>)>> >>,
           << <<EntryAttribute("cn", <<"bob">>), EntryAttribute("loginCount", <<"9">>),
                EntryAttribute("mail", <<"bob@example.com">>)>> >>,
           << <<EntryAttribute("cn", <<"bob">>), EntryAttribute("status", <<>>)>> >> }
    ELSE { << <<EntryAttribute("threads", <<"3.5">>)>> >>,
           << <<EntryAttribute("threads", <<"abc">>)>> >> }

\* The fqName of every descriptor of a source: the samples of a source are
\* those carrying one of them.
DescNames(source) ==
    {source.MetricAttributes[a].Desc.fqName : a \in DOMAIN source.MetricAttributes}

SamplesOf(source, sent) ==
    {i \in 1..Len(sent) : sent[i].desc.fqName \in DescNames(source)}

(***************************************************************************)
(* Exporter.Collect and Exporter.scrape                                    *)
(***************************************************************************)

\* No call of Parse is followed.
NoParseCall == [a |-> <<>>, extra_labels |-> EmptyMap, values |-> <<>>]

NotCalled == [status |-> "none", metrics |-> <<>>]

ParseIdle == parseCall = NoParseCall /\ parseRet = NotCalled

\* No call of scrapeMetrics is followed on its own.
NoScrapeCall == [m |-> <<>>, result |-> <<>>]

NotScraped == [status |-> "none", out |-> <<>>]

ExtractIdle == scrapeCall = NoScrapeCall /\ scrapeRet = NotScraped

\* No run of LoadConfig is followed.
NoDocument == [WellTyped |-> TRUE, Sources |-> <<>>]

LoadIdle == configData = NoDocument /\ loadRuns = <<>>

\* Describe has not been called.
NotDescribed == [called |-> FALSE, descs |-> <<>>]

\* The exporter as NewExporter returns it, before any Collect or Describe.
ExporterIdle ==
    /\ described = NotDescribed
    /\ totalScrapes = 0
    /\ totalErrors = 0
    /\ scrapeError = 0
    /\ duration = "unset"
    /\ pc = [c \in Collectors |-> "idle"]
    /\ idx = [c \in Collectors |-> 0]
    /\ failures = [c \in Collectors |-> 0]
    /\ result = [c \in Collectors |-> <<>>]
    /\ outstanding = {}
    /\ ch = [c \in Collectors |-> <<>>]
    /\ issued = [c \in Collectors |-> <<>>]
    /\ answered = [c \in Collectors |-> <<>>]
    /\ errlog = [c \in Collectors |-> <<>>]
    /\ history = <<>>
    /\ crashed = FALSE

Init ==
    /\ metricsSources \in ExporterConfigs
    /\ ExporterIdle
    /\ ParseIdle
    /\ ExtractIdle
    /\ LoadIdle

\* Collect is called and scrape starts: the counter of scrapes is
\* incremented, failures is zero, the deferred function is registered.
CollectBegin(c) ==
    /\ ~crashed
    /\ pc[c] \in {"idle", "done"}
    /\ totalScrapes < MaxCycles
    /\ totalScrapes' = totalScrapes + 1
    /\ failures' = [failures EXCEPT ![c] = 0]
    /\ issued' = [issued EXCEPT ![c] = <<>>]
    /\ answered' = [answered EXCEPT ![c] = <<>>]
    /\ idx' = [idx EXCEPT ![c] = 1]
    /\ ch' = [ch EXCEPT ![c] = <<>>]
    /\ errlog' = [errlog EXCEPT ![c] = <<>>]
    /\ result' = [result EXCEPT ![c] = <<>>]
    /\ pc' = [pc EXCEPT ![c] = IF Len(metricsSources) = 0 THEN "deferred" ELSE "search"]
    /\ UNCHANGED <<metricsSources, totalErrors, scrapeError, duration, outstanding,
                   history, crashed>>
    /\ UNCHANGED callVars

\* A search that waits until no other Collect call has one outstanding.
IssueSearchExclusive(c) ==
    /\ ~crashed
    /\ pc[c] = "search"
    /\ outstanding = {}
    /\ outstanding' = outstanding \cup {c}
    /\ issued' = [issued EXCEPT ![c] = Append(issued[c], idx[c])]
    /\ pc' = [pc EXCEPT ![c] = "waiting"]
    /\ UNCHANGED <<metricsSources, totalScrapes, totalErrors, scrapeError, duration,
                   idx, failures, result, ch, answered, errlog, history, crashed>>
    /\ UNCHANGED callVars

\* e.conn.Search(source.SearchRequest) is called: the request goes out.
IssueSearch(c) ==
    /\ ~crashed
    /\ pc[c] = "search"
    /\ outstanding' = outstanding \cup {c}
    /\ issued' = [issued EXCEPT ![c] = Append(issued[c], idx[c])]
    /\ pc' = [pc EXCEPT ![c] = "waiting"]
    /\ UNCHANGED <<metricsSources, totalScrapes, totalErrors, scrapeError, duration,
                   idx, failures, result, ch, answered, errlog, history, crashed>>
    /\ UNCHANGED callVars

\* The loop of scrape goes on to the next source, or ends.
NextSource(c) ==
    IF idx[c] < Len(metricsSources)
    THEN /\ idx' = [idx EXCEPT ![c] = idx[c] + 1]
         /\ pc' = [pc EXCEPT ![c] = "search"]
    ELSE /\ idx' = idx
         /\ pc' = [pc EXCEPT ![c] = "deferred"]

\* What conn.Search returned: an error, or a result.
SearchError == [failed |-> TRUE, entries |-> <<>>]

SearchResult(entries) == [failed |-> FALSE, entries |-> entries]

\* The search returns an error: it is logged and counted, and the loop
\* continues.
SearchFails(c) ==
    /\ ~crashed
    /\ pc[c] = "waiting"
    /\ outstanding' = outstanding \ {c}
    /\ errlog' = [errlog EXCEPT ![c] = Append(errlog[c], idx[c])]
    /\ failures' = [failures EXCEPT ![c] = failures[c] + 1]
    /\ answered' = [answered EXCEPT ![c] = Append(answered[c], SearchError)]
    /\ NextSource(c)
    /\ UNCHANGED <<metricsSources, totalScrapes, totalErrors, scrapeError, duration,
                   result, ch, issued, history, crashed>>
    /\ UNCHANGED callVars

\* The search returns a result.
SearchSucceeds(c) ==
    /\ ~crashed
    /\ pc[c] = "waiting"
    /\ outstanding' = outstanding \ {c}
    /\ \E answer \in DirectoryAnswers(metricsSources[idx[c]]) :
           /\ result' = [result EXCEPT ![c] = answer]
           /\ answered' = [answered EXCEPT ![c] = Append(answered[c], SearchResult(answer))]
    /\ pc' = [pc EXCEPT ![c] = "extract"]
    /\ UNCHANGED <<metricsSources, totalScrapes, totalErrors, scrapeError, duration,
                   idx, failures, ch, issued, errlog, history, crashed>>
    /\ UNCHANGED callVars

\* What follows scrapeMetrics having sent scraped.out and ended with
\* scraped.status.
Extracted(c, scraped) ==
    /\ ch' = [ch EXCEPT ![c] = ch[c] \o scraped.out]
    /\ IF scraped.status = "panic"
       THEN /\ duration' = "measured"
            /\ scrapeError' = failures[c]
            /\ totalErrors' = totalErrors + failures[c]
            /\ history' = Append(history, errlog[c])
            /\ crashed' = TRUE
            /\ pc' = [pc EXCEPT ![c] = "panicked"]
            /\ UNCHANGED <<idx, failures, errlog>>
       ELSE /\ IF scraped.status = "err"
               THEN /\ errlog' = [errlog EXCEPT ![c] = Append(errlog[c], idx[c])]
                    /\ failures' = [failures EXCEPT ![c] = failures[c] + 1]
               ELSE UNCHANGED <<errlog, failures>>
            /\ NextSource(c)
            /\ UNCHANGED <<duration, scrapeError, totalErrors, history, crashed>>

\* source.scrapeMetrics(result, ch).  An error is logged and counted and
\* the loop continues.  A panic unwinds scrape, running its deferred
\* function, and ends the process.
Extract(c) ==
    /\ ~crashed
    /\ pc[c] = "extract"
    /\ Extracted(c, scrapeMetrics(metricsSources[idx[c]], result[c]))
    /\ UNCHANGED <<metricsSources, totalScrapes, result, outstanding, issued, answered>>
    /\ UNCHANGED callVars

\* Deferred with the gauge added to in the place of set.
DeferredAccumulates(c) ==
    /\ ~crashed
    /\ pc[c] = "deferred"
    /\ duration' = "measured"
    /\ scrapeError' = scrapeError + failures[c]
    /\ totalErrors' = totalErrors + failures[c]
    /\ history' = Append(history, errlog[c])
    /\ pc' = [pc EXCEPT ![c] = "emit"]
    /\ UNCHANGED <<metricsSources, totalScrapes, idx, failures, result, outstanding,
                   ch, issued, answered, errlog, crashed>>
    /\ UNCHANGED callVars

\* scrape returns: its deferred function records the duration and the
\* failures of this cycle.
Deferred(c) ==
    /\ ~crashed
    /\ pc[c] = "deferred"
    /\ duration' = "measured"
    /\ scrapeError' = failures[c]
    /\ totalErrors' = totalErrors + failures[c]
    /\ history' = Append(history, errlog[c])
    /\ pc' = [pc EXCEPT ![c] = "emit"]
    /\ UNCHANGED <<metricsSources, totalScrapes, idx, failures, result, outstanding,
                   ch, issued, answered, errlog, crashed>>
    /\ UNCHANGED callVars

\* A self-metric as sent to ch.
SelfMetric(name, valueType, value) ==
    [desc |-> NewDesc(name, "", <<>>, EmptyMap), valType |-> valueType,
     val |-> value, labelValues |-> <<>>]

\* Collect sends the four self-metrics and returns.
EmitSelfMetrics(c) ==
    /\ ~crashed
    /\ pc[c] = "emit"
    /\ ch' = [ch EXCEPT ![c] = ch[c] \o
                <<SelfMetric("ldap_exporter_last_scrape_duration_seconds", "GaugeValue", duration),
                  SelfMetric("ldap_exporter_scrapes_total", "CounterValue", totalScrapes),
                  SelfMetric("ldap_exporter_errors_total", "CounterValue", totalErrors),
                  SelfMetric("ldap_exporter_last_scrape_error", "GaugeValue", scrapeError)>>]
    /\ pc' = [pc EXCEPT ![c] = "done"]
    /\ UNCHANGED <<metricsSources, totalScrapes, totalErrors, scrapeError, duration,
                   idx, failures, result, outstanding, issued, answered, errlog,
                   history, crashed>>
    /\ UNCHANGED callVars

\* No other Collect call is running.
Alone(c) == \A d \in Collectors \ {c} : pc[d] \in {"idle", "done"}

\* Collect called when no other Collect call is running.
CollectBeginAlone(c) == Alone(c) /\ CollectBegin(c)

Step(c) ==
    \/ IssueSearch(c)
    \/ SearchFails(c)
    \/ SearchSucceeds(c)
    \/ Extract(c)
    \/ Deferred(c)
    \/ EmitSelfMetrics(c)

\* The descriptors Describe sends for one source: one per entry of its
\* MetricAttributes, in the order the range loop visits them.
DescribeSourceFirstOnly(source, offset) ==
    LET order == RangeOrder(source.MetricAttributes, offset)
    IN  IF Len(order) = 0 THEN <<>> ELSE <<source.MetricAttributes[order[1]].Desc>>

DescribeSource(source, offset) ==
    LET order == RangeOrder(source.MetricAttributes, offset)
    IN  [j \in 1..Len(order) |-> source.MetricAttributes[order[j]].Desc]

\* The descriptors sent for the sources from the i-th on.
RECURSIVE DescribeSources(_, _, _)
DescribeSources(sources, offsets, i) ==
    IF i > Len(sources) THEN <<>>
    ELSE DescribeSource(sources[i], offsets[i]) \o DescribeSources(sources, offsets, i + 1)

\* The slots the range loop over the metric attributes of a source may
\* start from.
DescribeSlots == 0..1

\* Exporter.Describe: the descriptor of every metric attribute of every
\* source is sent; nothing of the exporter is read but metricsSources and
\* nothing is written.  It may run at any time, whatever Collect is doing.
Describe ==
    /\ ~crashed
    /\ \E offsets \in [1..Len(metricsSources) -> DescribeSlots] :
           described' = [called |-> TRUE,
                         descs |-> DescribeSources(metricsSources, offsets, 1)]
    /\ UNCHANGED scrapeVars
    /\ UNCHANGED <<parseVars, extractVars, loadVars>>

\* Collect calls that follow one another.
Next ==
    \/ \E c \in Collectors : CollectBeginAlone(c) \/ Step(c)
    \/ Describe

Spec == Init /\ [][Next]_vars

\* Collect calls that may overlap.
NextConcurrent ==
    \/ \E c \in Collectors : CollectBegin(c) \/ Step(c)
    \/ Describe

SpecConcurrent == Init /\ [][NextConcurrent]_vars

(***************************************************************************)
(* Properties of a collection cycle                                        *)
(***************************************************************************)

\* The samples of source i among what Collect call c has sent.
SourceSamples(c, i) ==
    SelectSeq(ch[c], LAMBDA x : x.desc.fqName \in DescNames(metricsSources[i]))

\* scrape has left its loop over the sources by reaching its end.
LoopOver(c) == pc[c] \in {"deferred", "emit", "done"}

\* The cycle of c has ended: the loop is over, or a panic has unwound it.
CycleEnded(c) == LoopOver(c) \/ pc[c] = "panicked"

\* Every configured source has been searched by c, in the configured
\* order, and for every source whose search returned a result the samples
\* of that source sent to the channel are exactly those its extraction
\* sends for that result.
EverySourceScraped(c) ==
    /\ issued[c] = [i \in 1..Len(metricsSources) |-> i]
    /\ Len(answered[c]) = Len(metricsSources)
    /\ \A i \in 1..Len(metricsSources) :
           ~answered[c][i].failed =>
               SourceSamples(c, i) =
                   scrapeMetrics(metricsSources[i], answered[c][i].entries).out

\* C1 as claimed: however a cycle ends, whatever search or extraction
\* failed on the way, every configured source has been searched in that
\* cycle and the samples it produces have been sent.
C1_FailureDoesNotAbortCycle ==
    \A c \in Collectors : CycleEnded(c) => EverySourceScraped(c)

\* Failures that are returned as errors leave the loop running to its end:
\* a loop that is over has searched every source.
ErrorsDoNotAbortCycle ==
    \A c \in Collectors : LoopOver(c) => EverySourceScraped(c)

RECURSIVE SumOfLengths(_)
SumOfLengths(h) == IF h = <<>> THEN 0 ELSE Len(Head(h)) + SumOfLengths(Tail(h))

\* No scrape is running.
Quiet == \A c \in Collectors : pc[c] \in {"idle", "emit", "done"}

\* C2: between cycles, the counter of scrapes is the number of cycles run,
\* the gauge of the last scrape's errors is the number of sources that
\* failed in the last cycle, the counter of errors is the sum of these
\* numbers over all cycles, and no cycle counts a source twice.
C2_SelfMetricsAccounting ==
    Quiet =>
        /\ totalScrapes = Len(history)
        /\ totalErrors = SumOfLengths(history)
        /\ history # <<>> => scrapeError = Len(history[Len(history)])
        /\ \A k \in 1..Len(history) :
               /\ Len(history[k]) <= Len(metricsSources)
               /\ \A i, j \in 1..Len(history[k]) :
                      i < j => history[k][i] < history[k][j]

\* Two sources, the first search failing and the second succeeding:
\* last-scrape-error 1, total-errors 1, total-scrapes 1.
C2_Witness ==
    \E c \in Collectors :
        /\ pc[c] = "done"
        /\ Len(answered[c]) = 2
        /\ answered[c][1].failed
        /\ ~answered[c][2].failed
        /\ errlog[c] = <<1>>
        /\ history = <<errlog[c]>>
        /\ scrapeError = 1 /\ totalErrors = 1 /\ totalScrapes = 1

\* C4 as claimed: a source counted as failed in a cycle has no sample among
\* what that cycle has sent.
C4_FailedSourceSentNothing ==
    \A c \in Collectors :
        \A k \in 1..Len(errlog[c]) : SourceSamples(c, errlog[c][k]) = <<>>

(***************************************************************************)
(* MetricAttribute.Parse as a function of its arguments                    *)
(***************************************************************************)

\* The most values an attribute carries in the calls followed.
MaxValues == 2

\* Raw values as a directory returns them.
RawValues == {"7", "3.5", "abc", "-1", "", "9007199254740993", "18446744073709551616"}

ValueLists == UNION {[1..k -> RawValues] : k \in 0..MaxValues}

\* Compiled translators: none; the status template; one referencing a key
\* the input lacks; one rendering text that is no YAML list of results; one
\* rendering a result with an unknown field; one rendering the empty list;
\* one whose result sets the labels user and state; one whose result has
\* no labels.
Translators ==
    { NilTemplate,
      StatusTemplate,
      Template(TRUE, TRUE, <<>>),
      Template(FALSE, FALSE, <<>>),
      Template(FALSE, TRUE, <<TranslationResult("1", EmptyMap, {"extra"})>>),
      Template(FALSE, TRUE, <<>>),
      Template(FALSE, TRUE,
               <<TranslationResult("1", ("user" :> "svc") @@ ("state" :> "ok"), {})>>),
      Template(FALSE, TRUE, <<TranslationResult("3", EmptyMap, {})>>) }

\* The ordered label names a metric declares.
DeclaredLabels == {<<>>, <<"user">>, <<"user", "state">>, <<"state", "user">>}

\* The labels scrapeMetrics hands to Parse.
CallerLabels == {EmptyMap, "user" :> "alice", ("user" :> "alice") @@ ("state" :> "raw")}

ParseAttributes ==
    {NewCounterMetricAttribute("ldap_m_total", l, EmptyMap, t, "No help provided") :
        l \in DeclaredLabels, t \in Translators}
    \cup
    {NewGaugeMetricAttribute("ldap_m", l, EmptyMap, t, "No help provided") :
        l \in DeclaredLabels, t \in Translators}

InitParse ==
    /\ metricsSources = <<>>
    /\ ExporterIdle
    /\ parseCall \in [a : ParseAttributes, extra_labels : CallerLabels, values : ValueLists]
    /\ parseRet = NotCalled
    /\ ExtractIdle
    /\ LoadIdle

\* The call of Parse returns (or panics).
ParseCall ==
    /\ parseRet = NotCalled
    /\ parseCall # NoParseCall
    /\ parseRet' = Parse(parseCall.a, parseCall.extra_labels,
                         EntryAttribute("attr", parseCall.values))
    /\ UNCHANGED parseCall
    /\ UNCHANGED extractVars
    /\ UNCHANGED loadVars
    /\ UNCHANGED describeVars
    /\ UNCHANGED scrapeVars

SpecParse == InitParse /\ [][ParseCall]_vars

Called == parseRet # NotCalled

\* The text v is an unsigned base-10 integer of 64 bits.
IsUintLiteral(v) == Len(v) > 0 /\ AllDigits(v) /\ ~NatLess(MaxUint64, StripZeros(v))

\* The one raw value of the call parses as the kind of the attribute asks.
ValueParses ==
    /\ Len(parseCall.values) = 1
    /\ IF parseCall.a.kind = "counter" THEN IsUintLiteral(parseCall.values[1])
       ELSE ~ParseFloat(parseCall.values[1]).err

\* The number the one raw value parses to.
ParsedNumber ==
    IF parseCall.a.kind = "counter"
    THEN Canonical(FALSE, StripZeros(parseCall.values[1]), "")
    ELSE ParseFloat(parseCall.values[1]).val

\* 2^53: up to it every integer is a float64.
TwoTo53 == "9007199254740992"

\* Every label the attribute declares is among the caller's labels.
LabelsFromCaller ==
    \A j \in 1..Len(parseCall.a.labels) :
        parseCall.a.labels[j] \in DOMAIN parseCall.extra_labels

\* C5 as claimed: without translator, exactly one value that parses gives
\* exactly one sample whose value is the parsed number; anything else gives
\* an error and no sample.
C5_OneValueOneSample ==
    (Called /\ parseCall.a.translator.nil) =>
        IF ValueParses
        THEN /\ parseRet.status = "ok"
             /\ Len(parseRet.metrics) = 1
             /\ parseRet.metrics[1].val = ParsedNumber
        ELSE parseRet.status = "err" /\ parseRet.metrics = <<>>

\* C5 amended: without translator, exactly one value that parses gives
\* exactly one sample provided every declared label is among the caller's
\* labels; the value of the sample is the float64 nearest the parsed
\* number, which is the parsed number itself for a counter up to 2^53.
\* Any other number of values, a value that does not parse, or a declared
\* label the caller's labels lack gives an error and no sample.
C5_OneValueOneSampleAmended ==
    (Called /\ parseCall.a.translator.nil) =>
        IF ValueParses /\ LabelsFromCaller
        THEN /\ parseRet.status = "ok"
             /\ Len(parseRet.metrics) = 1
             /\ parseRet.metrics[1].val =
                    IF /\ parseCall.a.kind = "counter"
                       /\ NatLess(TwoTo53, StripZeros(parseCall.values[1]))
                    THEN Float64OfUint(StripZeros(parseCall.values[1]))
                    ELSE ParsedNumber
        ELSE parseRet.status = "err" /\ parseRet.metrics = <<>>

\* A gauge without translator and the one value "3.5": one sample, 3.5.
C5_Witness ==
    /\ Called
    /\ parseCall.a.translator.nil
    /\ parseCall.a.kind = "gauge"
    /\ parseCall.values = <<"3.5">>
    /\ parseRet.status = "ok"
    /\ Len(parseRet.metrics) = 1
    /\ parseRet.metrics[1].val = "3.5"

\* The translator of the call renders its results: there is a value to
\* build the input from, the template executes, its text decodes, and no
\* result has an unknown field.
Rendered ==
    /\ ~parseCall.a.translator.nil
    /\ Len(parseCall.values) > 0
    /\ ~parseCall.a.translator.missingKey
    /\ parseCall.a.translator.yamlOK
    /\ \A k \in 1..Len(parseCall.a.translator.results) :
           parseCall.a.translator.results[k].X = {}

\* The label name is in the translation result r or in the caller's labels.
Resolvable(name, r) ==
    name \in DOMAIN r.Labels \/ name \in DOMAIN parseCall.extra_labels

\* The value of the label name: the translation's if it has one, else the
\* caller's.
Resolved(name, r) ==
    IF name \in DOMAIN r.Labels THEN r.Labels[name] ELSE parseCall.extra_labels[name]

\* C6: with a translator, every declared label of every translation result
\* is the translation's value if the translation has the name, else the
\* caller's; a declared name in neither makes Parse fail; the label values
\* are as many as the declared names and in their order.
C6_TranslationLabelsFirst ==
    (Called /\ Rendered) =>
        LET results == parseCall.a.translator.results
            declared == parseCall.a.labels
        IN  IF \E k \in 1..Len(results) : \E j \in 1..Len(declared) :
                   ~Resolvable(declared[j], results[k])
            THEN parseRet.status = "err"
            ELSE /\ parseRet.status = "ok"
                 /\ Len(parseRet.metrics) = Len(results)
                 /\ \A k \in 1..Len(results) :
                        /\ Len(parseRet.metrics[k].labelValues) = Len(declared)
                        /\ \A j \in 1..Len(declared) :
                               parseRet.metrics[k].labelValues[j] =
                                   Resolved(declared[j], results[k])

\* A declared label that both the translation and the caller set, to
\* different values: the sample carries the translation's.
C6_Witness ==
    /\ Called
    /\ Rendered
    /\ parseRet.status = "ok"
    /\ Len(parseRet.metrics) > 0
    /\ \E j \in 1..Len(parseCall.a.labels) :
           LET name == parseCall.a.labels[j]
               r    == parseCall.a.translator.results[1]
           IN  /\ name \in DOMAIN r.Labels
               /\ name \in DOMAIN parseCall.extra_labels
               /\ r.Labels[name] # parseCall.extra_labels[name]
               /\ parseRet.metrics[1].labelValues[j] = r.Labels[name]

\* C7 as claimed: Parse ends by returning samples or an error, never by a
\* panic.
C7_ParseNeverPanics == parseRet.status # "panic"

(***************************************************************************)
(* MetricsSource.scrapeMetrics as a function of the search result          *)
(***************************************************************************)

\* The source of the configuration
\*   name: people, search: ou=people, attributes: {labels: {cn: user},
\*   metrics: {loginCount: {type: counter, metric_name: logins}}}
PeopleSource ==
    MetricsSource("ou=people", "(objectClass=*)", ScopeBaseObject, DerefAlways,
                  <<"loginCount", "cn">>,
                  "loginCount" :> NewCounterMetricAttribute(
                        "ldap_logins", <<"user">>, EmptyMap, NilTemplate, "No help provided"),
                  "cn" :> "user")

\* The same with a second label attribute, attributes: {labels: {cn: user,
\* ou: unit}, ...}
UnitsSource ==
    MetricsSource("ou=units", "(objectClass=*)", ScopeBaseObject, DerefAlways,
                  <<"loginCount", "cn", "ou">>,
                  "loginCount" :> NewCounterMetricAttribute(
                        "ldap_logins", <<"user", "unit">>, EmptyMap, NilTemplate,
                        "No help provided"),
                  ("cn" :> "user") @@ ("ou" :> "unit"))

ExtractSources == {PeopleSource, UnitsSource}

\* The attributes a server may return, in the order it returns them.
ServerAttributes == <<"cn", "ou", "loginCount", "mail">>

\* The value lists a server may return for an attribute.
ServerValues(name) ==
    IF name = "cn" THEN {[i \in 1..k |-> "alice"] : k \in 0..MaxValues}
    ELSE IF name = "ou" THEN {<<"eng">>}
    ELSE IF name = "loginCount" THEN {<<"4">>, <<"abc">>}
    ELSE {<<"alice@example.com">>}

Reversed(s) == [j \in 1..Len(s) |-> s[Len(s) + 1 - j]]

\* The entries a server may return: each attribute at most once, in the
\* server's order or in the reverse of it.
ServerEntries ==
    LET full == {[j \in 1..Len(ServerAttributes) |->
                     EntryAttribute(ServerAttributes[j], v[j])] :
                 v \in [1..Len(ServerAttributes) -> UNION {ServerValues(ServerAttributes[j]) :
                                                          j \in 1..Len(ServerAttributes)}]}
        typed == {e \in full : \A j \in 1..Len(e) : e[j].Values \in ServerValues(e[j].Name)}
        parts == {Selected(e, keep, 1) : e \in typed, keep \in SUBSET (1..Len(ServerAttributes))}
    IN  parts \cup {Reversed(e) : e \in parts}

\* The search results followed: up to two entries.
ServerResults ==
    {<<>>} \cup {<<e>> : e \in ServerEntries}
           \cup {<<e1, e2>> : e1 \in ServerEntries, e2 \in ServerEntries}

InitExtract ==
    /\ metricsSources = <<>>
    /\ ExporterIdle
    /\ ParseIdle
    /\ scrapeCall \in [m : ExtractSources, result : ServerResults]
    /\ scrapeRet = NotScraped
    /\ LoadIdle

\* The call of scrapeMetrics returns.
ScrapeCall ==
    /\ scrapeRet = NotScraped
    /\ scrapeCall # NoScrapeCall
    /\ scrapeRet' = scrapeMetrics(scrapeCall.m, scrapeCall.result)
    /\ UNCHANGED scrapeCall
    /\ UNCHANGED parseVars
    /\ UNCHANGED loadVars
    /\ UNCHANGED describeVars
    /\ UNCHANGED scrapeVars

SpecExtract == InitExtract /\ [][ScrapeCall]_vars

Scraped == scrapeRet # NotScraped

\* The entry e holds every label attribute of m, each with one value.
LabelsExactlyOnce(m, e) ==
    \A attr \in DOMAIN m.LabelAttributes :
        \E j \in 1..Len(e) : e[j].Name = attr /\ Len(e[j].Values) = 1

\* The number of metric attributes of m in entries.
RECURSIVE MetricAttributeCount(_, _, _)
MetricAttributeCount(m, entries, k) ==
    IF k > Len(entries) THEN 0
    ELSE Cardinality({j \in 1..Len(entries[k]) :
                         entries[k][j].Name \in DOMAIN m.MetricAttributes})
         + MetricAttributeCount(m, entries, k + 1)

\* C3: an entry lacking a label attribute, or holding one with no value or
\* with several, makes scrapeMetrics return an error, and what has been
\* sent is what the entries before it sent: nothing of that entry.
C3_IncompleteEntryRejected ==
    Scraped =>
        \A k \in 1..Len(scrapeCall.result) :
            ~LabelsExactlyOnce(scrapeCall.m, scrapeCall.result[k]) =>
                /\ scrapeRet.status = "err"
                /\ scrapeRet.out =
                       scrapeMetrics(scrapeCall.m, SubSeq(scrapeCall.result, 1, k - 1)).out
                /\ Len(scrapeRet.out) <=
                       MetricAttributeCount(scrapeCall.m, SubSeq(scrapeCall.result, 1, k - 1), 1)

\* A complete entry followed by one that has a parsable loginCount but no
\* cn: the first entry's sample is all that was sent.
C3_Witness ==
    /\ Scraped
    /\ scrapeCall.m = PeopleSource
    /\ scrapeCall.result =
           << <<EntryAttribute("cn", <<"alice">>), EntryAttribute("loginCount", <<"4">>)>>,
              <<EntryAttribute("loginCount", <<"4">>)>> >>
    /\ scrapeRet.status = "err"
    /\ Len(scrapeRet.out) = 1
    /\ scrapeRet.out[1].labelValues = <<"alice">>

(***************************************************************************)
(* Loading the configuration                                               *)
(*                                                                         *)
(* A document is held as yaml.v2 has decoded its nodes: WellTyped tells    *)
(* whether a node has the shape of the Go type it is decoded into, X is    *)
(* the set of keys the inline map of the type has taken, an optional       *)
(* scalar is a pointer, and a template is held by what its text compiles   *)
(* to.  Every error is an error of the whole load: yaml.v2 fails the       *)
(* decoding on the first error a hook returns.                             *)
(***************************************************************************)

\* unicode.IsSpace, for the characters of the documents followed.
WhiteSpace == {" ", "\t"}

RECURSIVE TrimLeft(_)
TrimLeft(s) ==
    IF Len(s) > 0 /\ Char(s, 1) \in WhiteSpace THEN TrimLeft(SubSeq(s, 2, Len(s))) ELSE s

RECURSIVE TrimRight(_)
TrimRight(s) ==
    IF Len(s) > 0 /\ Char(s, Len(s)) \in WhiteSpace
    THEN TrimRight(SubSeq(s, 1, Len(s) - 1))
    ELSE s

\* strings.TrimSpace
TrimSpace(s) == TrimRight(TrimLeft(s))

\* A nil pointer to a string, and a pointer to the string s.
NilString == [nil |-> TRUE, v |-> ""]

StringPtr(s) == [nil |-> FALSE, v |-> s]

RECURSIVE ComponentsOK(_, _, _)
\* Every comma-separated component of s from position i on holds an "=";
\* seen tells whether the current one did so far.
ComponentsOK(s, i, seen) ==
    IF i > Len(s) THEN seen
    ELSE IF Char(s, i) = "," THEN seen /\ ComponentsOK(s, i + 1, FALSE)
    ELSE ComponentsOK(s, i + 1, seen \/ Char(s, i) = "=")

\* ldap.ParseDN(s), for distinguished names without escapes: an error when
\* a component is no type=value pair.
ParseDN(s) == [err |-> ~(Len(s) = 0 \/ ComponentsOK(s, 1, FALSE))]

\* ldap.CompileFilter(s), for filters of one item: an error when the text
\* is empty or not enclosed in parentheses.
CompileFilter(s) ==
    [err |-> ~(Len(s) > 0 /\ Char(s, 1) = "(" /\ Char(s, Len(s)) = ")")]

\* (d *dnString) UnmarshalYAML: the error it returns, if any.
dnStringUnmarshalYAML(s) == IF ParseDN(s).err THEN Errorf ELSE NoError

\* (f *filterString) UnmarshalYAML
filterStringUnmarshalYAML(s) == IF CompileFilter(s).err THEN Errorf ELSE NoError

\* A template of the document that is absent, and one that is present:
\* whether its text parses, and what it compiles to.
NoTranslator == [nil |-> TRUE, parses |-> TRUE, template |-> NilTemplate]

Translator(parses, t) == [nil |-> FALSE, parses |-> parses, template |-> t]

\* A naming template: it renders {section}_{attribute} followed by suffix,
\* or references a key its input lacks.
NameTemplate(parses, missingKey, suffix) ==
    [nil |-> FALSE, parses |-> parses, missingKey |-> missingKey, suffix |-> suffix]

NilNameTemplate == [nil |-> TRUE, parses |-> TRUE, missingKey |-> FALSE, suffix |-> ""]

\* "{{ .section }}_{{ .attribute }}_total"
defaultCounterNameTemplate == NameTemplate(TRUE, FALSE, "_total")

\* "{{ .section }}_{{ .attribute }}"
defaultmetricNameTemplate == NameTemplate(TRUE, FALSE, "")

\* (t *templateString) UnmarshalYAML
templateStringUnmarshalYAML(t) == IF t.parses THEN NoError ELSE Errorf

\* ldap.ScopeMap
ScopeMap ==
    (ScopeBaseObject :> "Base Object") @@ (ScopeSingleLevel :> "Single Level")
    @@ (ScopeWholeSubtree :> "Whole Subtree")

\* (s *scopeChoice) UnmarshalYAML
scopeChoiceUnmarshalYAML(choice) ==
    IF \E scope \in DOMAIN ScopeMap : ScopeMap[scope] = choice
    THEN [err |-> FALSE, v |-> CHOOSE scope \in DOMAIN ScopeMap : ScopeMap[scope] = choice]
    ELSE IF choice = "base" THEN [err |-> FALSE, v |-> ScopeBaseObject]
    ELSE IF choice = "single" THEN [err |-> FALSE, v |-> ScopeSingleLevel]
    ELSE IF choice = "subtree" THEN [err |-> FALSE, v |-> ScopeWholeSubtree]
    ELSE [err |-> TRUE, v |-> ScopeBaseObject]

\* (d *derefChoice) UnmarshalYAML
derefChoiceUnmarshalYAML(choice) ==
    IF choice = "never" THEN [err |-> FALSE, v |-> NeverDerefAliases]
    ELSE IF choice = "search" THEN [err |-> FALSE, v |-> DerefInSearching]
    ELSE IF choice = "base" THEN [err |-> FALSE, v |-> DerefFindingBaseObj]
    ELSE IF choice = "always" THEN [err |-> FALSE, v |-> DerefAlways]
    ELSE [err |-> TRUE, v |-> NeverDerefAliases]

\* (mac *metricAttributeConfig) UnmarshalYAML: the error it returns, if any.
metricAttributeConfigUnmarshalYAML(mac) ==
    FirstError(<<IF mac.WellTyped THEN NoError ELSE Errorf,
                 IF mac.Translator.nil THEN NoError
                 ELSE templateStringUnmarshalYAML(mac.Translator),
                 checkOverflow(mac.X),
                 IF mac.Type = "" THEN Errorf ELSE NoError,
                 IF \E i \in 1..Len(mac.Labels) :
                        Len(TrimSpace(mac.Labels[i])) # Len(mac.Labels[i])
                 THEN Errorf ELSE NoError>>)

\* (a *attributeConfig) UnmarshalYAML: the metrics are decoded in the order
\* the document holds them, then the inline map is checked.
attributeConfigUnmarshalYAML(a) ==
    LET keys == RangeOrder(a.Metrics, 0)
    IN  FirstError(<<IF a.WellTyped THEN NoError ELSE Errorf>>
                   \o [j \in 1..Len(keys) |->
                          metricAttributeConfigUnmarshalYAML(a.Metrics[keys[j]])]
                   \o <<checkOverflow(a.X)>>)

RECURSIVE labelsFirstWins(_, _, _, _)
\* The loop that builds labelsFromAttributes with continue in the place of
\* the return of an error: the first attribute of a label name wins.
labelsFirstWins(Labels, order, j, merged) ==
    IF j > Len(order) THEN [err |-> FALSE, labels |-> merged]
    ELSE IF \E v \in 1..Len(merged) : Labels[order[j]] = merged[v]
         THEN labelsFirstWins(Labels, order, j + 1, merged)
         ELSE labelsFirstWins(Labels, order, j + 1, Append(merged, Labels[order[j]]))

RECURSIVE labelsFromAttributes(_, _, _, _)
\* The loop of metricSourceConfig.UnmarshalYAML that builds
\* s.labelsFromAttributes from s.Attributes.Labels, visited in order, from
\* its j-th key on, merged being what it has appended.
labelsFromAttributes(Labels, order, j, merged) ==
    IF j > Len(order) THEN [err |-> FALSE, labels |-> merged]
    ELSE IF \E v \in 1..Len(merged) : Labels[order[j]] = merged[v]
         THEN [err |-> TRUE, labels |-> <<>>]
         ELSE labelsFromAttributes(Labels, order, j + 1, Append(merged, Labels[order[j]]))

\* t.template.Option("missingkey=error").Execute(&buffer, {section, attribute})
ExecuteNameTemplate(t, section, attribute) ==
    [err |-> t.missingKey, text |-> section \o "_" \o attribute \o t.suffix]

\* setName of createMetricAttribute: the name of the metric, or an error.
setName(a, t, section, attribute) ==
    IF a.Name = ""
    THEN LET executed == ExecuteNameTemplate(t, section, attribute)
         IN  [err |-> executed.err, Name |-> "ldap_" \o executed.text]
    ELSE [err |-> FALSE, Name |-> "ldap_" \o a.Name]

\* (msc *metricSourceConfig) createMetricAttribute(a, attribute): the
\* metric attribute stored in msc.metricAttributes, or an error.
createMetricAttribute(msc, a, attribute) ==
    LET help   == IF a.Help = "" THEN "No help provided" ELSE a.Help
        labels == IF Len(msc.labelsFromAttributes) # 0
                  THEN msc.labelsFromAttributes \o a.Labels
                  ELSE a.Labels
    IN  IF a.Type = "counter"
        THEN LET named == setName(a, msc.CounterNameTemplate, msc.Name, attribute)
             IN  [err |-> named.err,
                  attr |-> NewCounterMetricAttribute(named.Name, labels, msc.ConstantLabels,
                                                     a.Translator.template, help)]
        ELSE IF a.Type = "gauge"
        THEN LET named == setName(a, msc.GaugeNameTemplate, msc.Name, attribute)
             IN  [err |-> named.err,
                  attr |-> NewGaugeMetricAttribute(named.Name, labels, msc.ConstantLabels,
                                                   a.Translator.template, help)]
        ELSE [err |-> TRUE,
              attr |-> NewGaugeMetricAttribute("", <<>>, EmptyMap, NilTemplate, "")]

\* The constant labels check of metricSourceConfig.UnmarshalYAML.
ConstantLabelsBad(ConstantLabels) ==
    IF \E key \in DOMAIN ConstantLabels :
           Len(TrimSpace(ConstantLabels[key])) # Len(ConstantLabels[key])
    THEN Errorf ELSE NoError

\* unmarshal((*plain)(s)): the error of decoding the fields of a source,
\* the hooks of the fields included, the fields taken in the order search,
\* filter, scope, deref, the naming templates, attributes.
plainSourceUnmarshal(s) ==
    FirstError(<<IF s.WellTyped THEN NoError ELSE Errorf,
                 IF s.Search.nil THEN NoError ELSE dnStringUnmarshalYAML(s.Search.v),
                 IF s.Filter.nil THEN NoError ELSE filterStringUnmarshalYAML(s.Filter.v),
                 IF ~s.Scope.nil /\ scopeChoiceUnmarshalYAML(s.Scope.v).err
                 THEN Errorf ELSE NoError,
                 IF ~s.Deref.nil /\ derefChoiceUnmarshalYAML(s.Deref.v).err
                 THEN Errorf ELSE NoError,
                 IF s.CounterNameTemplate.nil THEN NoError
                 ELSE templateStringUnmarshalYAML(s.CounterNameTemplate),
                 IF s.GaugeNameTemplate.nil THEN NoError
                 ELSE templateStringUnmarshalYAML(s.GaugeNameTemplate),
                 attributeConfigUnmarshalYAML(s.Attributes)>>)

\* The source s once its defaults are filled in and labelsFromAttributes
\* is built.
sourceWithDefaults(s, merged) ==
    [Name                 |-> s.Name,
     Search               |-> s.Search.v,
     Filter               |-> IF s.Filter.nil THEN "(objectClass=*)" ELSE s.Filter.v,
     CounterNameTemplate  |-> IF s.CounterNameTemplate.nil THEN defaultCounterNameTemplate
                              ELSE s.CounterNameTemplate,
     GaugeNameTemplate    |-> IF s.GaugeNameTemplate.nil THEN defaultmetricNameTemplate
                              ELSE s.GaugeNameTemplate,
     Scope                |-> IF s.Scope.nil THEN ScopeBaseObject
                              ELSE scopeChoiceUnmarshalYAML(s.Scope.v).v,
     Deref                |-> IF s.Deref.nil THEN DerefAlways
                              ELSE derefChoiceUnmarshalYAML(s.Deref.v).v,
     ConstantLabels       |-> s.ConstantLabels,
     Labels               |-> s.Attributes.Labels,
     labelsFromAttributes |-> merged]

\* metricSourceConfig.UnmarshalYAML returns the error e.
sourceFailed(e) ==
    [err |-> TRUE, fields |-> e.fields, Labels |-> EmptyMap, metricAttributes |-> EmptyMap]

\* The last loop of metricSourceConfig.UnmarshalYAML: every metric of the
\* document becomes a metric attribute; the first that fails ends the load
\* (which one is first changes the message only).
createMetricAttributes(msc, Metrics) ==
    LET created == [attr \in DOMAIN Metrics |-> createMetricAttribute(msc, Metrics[attr], attr)]
        keys    == RangeOrder(Metrics, 0)
        failed  == FirstError([j \in 1..(2 * Len(keys)) |->
                                 IF j % 2 = 1 THEN checkOverflow(Metrics[keys[(j + 1) \div 2]].X)
                                 ELSE IF created[keys[j \div 2]].err THEN Errorf ELSE NoError])
    IN  IF failed.err
        THEN sourceFailed(failed)
        ELSE [err |-> FALSE, fields |-> {}, Search |-> msc.Search, Filter |-> msc.Filter,
              Scope |-> msc.Scope, Deref |-> msc.Deref, Labels |-> msc.Labels,
              metricAttributes |-> [attr \in DOMAIN Metrics |-> created[attr].attr]]

\* metricSourceConfig.UnmarshalYAML from the loop over s.Attributes.Labels
\* on, given what that loop returned.
afterLabels(s, merged) ==
    IF merged.err THEN sourceFailed(Errorf)
    ELSE createMetricAttributes(sourceWithDefaults(s, merged.labels), s.Attributes.Metrics)

\* (s *metricSourceConfig) UnmarshalYAML, its loop over s.Attributes.Labels
\* starting at the slot offset.
metricSourceConfigUnmarshalYAML(s, offset) ==
    IF plainSourceUnmarshal(s).err THEN sourceFailed(plainSourceUnmarshal(s))
    ELSE IF checkOverflow(s.X).err THEN sourceFailed(checkOverflow(s.X))
    ELSE IF s.Search.nil THEN sourceFailed(Errorf)
    ELSE IF ConstantLabelsBad(s.ConstantLabels).err THEN sourceFailed(Errorf)
    ELSE afterLabels(s, labelsFromAttributes(s.Attributes.Labels,
                                             RangeOrder(s.Attributes.Labels, offset),
                                             1, <<>>))

\* NewMetricsSource, its two loops starting at the slots metricsOffset and
\* labelsOffset.
NewMetricsSource(searchDN, filter, scope, deref, metric_attributes, label_attributes, metricsOffset, labelsOffset) ==
    MetricsSource(searchDN, IF filter.nil THEN "(objectClass=*)" ELSE filter.v, scope, deref,
                  RangeOrder(metric_attributes, metricsOffset)
                      \o RangeOrder(label_attributes, labelsOffset),
                  metric_attributes, label_attributes)

\* The sources LoadConfig builds of the decoded sections.
sourcesOf(parsed_data, slots) ==
    [i \in 1..Len(parsed_data) |->
        NewMetricsSource(parsed_data[i].Search, StringPtr(parsed_data[i].Filter),
                         parsed_data[i].Scope, parsed_data[i].Deref,
                         parsed_data[i].metricAttributes, parsed_data[i].Labels,
                         slots[i].metrics, slots[i].labels)]

\* afterUnmarshal with the sections that failed to decode left out in the
\* place of the error returned.
afterUnmarshalSkipping(parsed_data, slots) ==
    LET valid == {i \in 1..Len(parsed_data) : ~parsed_data[i].err}
    IN  [err |-> FALSE, fields |-> {},
         sources |-> sourcesOf(Selected(parsed_data, valid, 1), Selected(slots, valid, 1))]

\* LoadConfig from the return of yaml.Unmarshal on.
afterUnmarshal(parsed_data, slots) ==
    IF \E i \in 1..Len(parsed_data) : parsed_data[i].err
    THEN [err |-> TRUE, fields |-> FirstError(parsed_data).fields, sources |-> <<>>]
    ELSE [err |-> FALSE, fields |-> {}, sources |-> sourcesOf(parsed_data, slots)]

\* LoadConfig(data).  slots[i] holds the slots the three range loops over
\* the maps of the i-th source start at.
LoadConfig(data, slots) ==
    IF ~data.WellTyped THEN [err |-> TRUE, fields |-> {}, sources |-> <<>>]
    ELSE afterUnmarshal([i \in 1..Len(data.Sources) |->
                            metricSourceConfigUnmarshalYAML(data.Sources[i], slots[i].merge)],
                        slots)

(***************************************************************************)
(* The documents followed, and runs of LoadConfig on one document          *)
(***************************************************************************)

\* A metric of a document: metric_name, type and labels given, no
\* translator, no help, no unknown key.
MetricNode(name, type, labels) ==
    [WellTyped |-> TRUE, Name |-> name, Type |-> type, Labels |-> labels,
     Translator |-> NoTranslator, Help |-> "", X |-> {}]

\* A source of a document: name, search, attributes.labels and
\* attributes.metrics given, every other key absent.
SourceNode(name, search, labels, metrics) ==
    [WellTyped |-> TRUE, Name |-> name, Search |-> search, Filter |-> NilString,
     Scope |-> NilString, Deref |-> NilString,
     CounterNameTemplate |-> NilNameTemplate, GaugeNameTemplate |-> NilNameTemplate,
     Attributes |-> [WellTyped |-> TRUE, Labels |-> labels, Metrics |-> metrics, X |-> {}],
     ConstantLabels |-> EmptyMap, X |-> {}]

\* attributes.labels of the sources followed: none, one, two, and two
\* attributes mapped to one label name.
LabelMappings ==
    { EmptyMap,
      "cn" :> "user",
      ("cn" :> "user") @@ ("ou" :> "unit"),
      ("cn" :> "user") @@ ("uid" :> "user") }

\* labels of the metrics followed.
MetricLabelLists ==
    {<<>>, <<"state">>, <<"">>, <<" state">>, <<"state\t">>, <<"state", "">>}

\* type of the metrics followed.
MetricTypes == {"counter", "gauge", "", "histogram"}

\* name: users, search: ou=people, attributes: {metrics: {status: {type:
\* gauge, labels: [state], translator: ...}}}
StatusNode ==
    [MetricNode("", "gauge", <<"state">>) EXCEPT !.Translator = Translator(TRUE, StatusTemplate)]

\* The sources that differ in their label mapping and in the type and the
\* labels of their metric loginCount, with and without a second metric.
VariedSources ==
    {SourceNode("users", StringPtr("ou=people"), labels,
                "loginCount" :> MetricNode("logins", type, metricLabels)) :
        labels \in LabelMappings, type \in MetricTypes, metricLabels \in MetricLabelLists}
    \cup
    {SourceNode("users", StringPtr("ou=people"), labels,
                ("loginCount" :> MetricNode("logins", type, metricLabels))
                @@ ("status" :> StatusNode)) :
        labels \in LabelMappings, type \in MetricTypes, metricLabels \in MetricLabelLists}

\* name: users, search: ou=people, attributes: {labels: {cn: user},
\* metrics: {loginCount: {type: counter, metric_name: logins}}}
UsersNode ==
    SourceNode("users", StringPtr("ou=people"), "cn" :> "user",
               "loginCount" :> MetricNode("logins", "counter", <<>>))

\* name: monitor, search: cn=monitor, attributes: {metrics: {threads:
\* {type: gauge}}}
MonitorNode ==
    SourceNode("monitor", StringPtr("cn=monitor"), EmptyMap,
               "threads" :> MetricNode("", "gauge", <<>>))

\* UsersNode with one key changed.
OtherSources ==
    { MonitorNode,
      [UsersNode EXCEPT !.WellTyped = FALSE],
      [UsersNode EXCEPT !.Search = NilString],
      [UsersNode EXCEPT !.Search = StringPtr("people")],
      [UsersNode EXCEPT !.Search = StringPtr("ou=people,dc=example,dc=com")],
      [UsersNode EXCEPT !.Filter = StringPtr("(uid=*)")],
      [UsersNode EXCEPT !.Filter = StringPtr("uid=*")],
      [UsersNode EXCEPT !.Scope = StringPtr("subtree")],
      [UsersNode EXCEPT !.Scope = StringPtr("Single Level")],
      [UsersNode EXCEPT !.Scope = StringPtr("tree")],
      [UsersNode EXCEPT !.Deref = StringPtr("never")],
      [UsersNode EXCEPT !.Deref = StringPtr("sometimes")],
      [UsersNode EXCEPT !.X = {"serach"}],
      [UsersNode EXCEPT !.X = {"serach", "filtre"}],
      [UsersNode EXCEPT !.X = {"serach"},
                        !.Attributes.Metrics["loginCount"].X = {"kind"}],
      [UsersNode EXCEPT !.ConstantLabels = "env" :> "prod"],
      [UsersNode EXCEPT !.ConstantLabels = "env" :> " prod"],
      [UsersNode EXCEPT !.Attributes.WellTyped = FALSE],
      [UsersNode EXCEPT !.Attributes.X = {"metric"}],
      [UsersNode EXCEPT !.Attributes.Metrics["loginCount"].WellTyped = FALSE],
      [UsersNode EXCEPT !.Attributes.Metrics["loginCount"].X = {"kind"}],
      [UsersNode EXCEPT !.Attributes.Metrics["loginCount"].Help = "Logins of the user"],
      [UsersNode EXCEPT !.Attributes.Metrics["loginCount"].Name = ""],
      [UsersNode EXCEPT !.Attributes.Metrics["loginCount"].Translator =
                            Translator(FALSE, NilTemplate)],
      [UsersNode EXCEPT !.Attributes.Metrics["loginCount"].Name = "",
                        !.CounterNameTemplate = NameTemplate(TRUE, FALSE, "_count")],
      [UsersNode EXCEPT !.Attributes.Metrics["loginCount"].Name = "",
                        !.CounterNameTemplate = NameTemplate(TRUE, TRUE, "")],
      [UsersNode EXCEPT !.CounterNameTemplate = NameTemplate(FALSE, FALSE, "")],
      [UsersNode EXCEPT !.GaugeNameTemplate = NameTemplate(FALSE, FALSE, "")] }

Document(sources) == [WellTyped |-> TRUE, Sources |-> sources]

\* UsersNode with one defect: no search, a malformed search, filter, scope
\* or deref, an unknown key at each level, a template that does not parse,
\* no type, an unknown type, two attributes mapped to one label name.
DefectiveSources ==
    { [UsersNode EXCEPT !.Search = NilString],
      [UsersNode EXCEPT !.Search = StringPtr("people")],
      [UsersNode EXCEPT !.Filter = StringPtr("uid=*")],
      [UsersNode EXCEPT !.Scope = StringPtr("tree")],
      [UsersNode EXCEPT !.Deref = StringPtr("sometimes")],
      [UsersNode EXCEPT !.X = {"serach"}],
      [UsersNode EXCEPT !.Attributes.X = {"metric"}],
      [UsersNode EXCEPT !.Attributes.Metrics["loginCount"].X = {"kind"}],
      [UsersNode EXCEPT !.Attributes.Metrics["loginCount"].Translator =
                            Translator(FALSE, NilTemplate)],
      [UsersNode EXCEPT !.CounterNameTemplate = NameTemplate(FALSE, FALSE, "")],
      [UsersNode EXCEPT !.GaugeNameTemplate = NameTemplate(FALSE, FALSE, "")],
      [UsersNode EXCEPT !.Attributes.Metrics["loginCount"].Type = ""],
      [UsersNode EXCEPT !.Attributes.Metrics["loginCount"].Type = "histogram"],
      [UsersNode EXCEPT !.Attributes.Labels = ("cn" :> "user") @@ ("uid" :> "user")] }

\* The documents followed: text that is no YAML list of sources, the empty
\* list, every source above alone, and lists of two sources, among them
\* every defective source before and after a valid one.
Documents ==
    { [WellTyped |-> FALSE, Sources |-> <<>>], Document(<<>>) }
    \cup {Document(<<s>>) : s \in VariedSources \cup OtherSources}
    \cup { Document(<<UsersNode, MonitorNode>>),
           Document(<<MonitorNode, UsersNode>>),
           Document(<<UsersNode, [MonitorNode EXCEPT !.Search = NilString]>>) }
    \cup {Document(<<MonitorNode, s>>) : s \in DefectiveSources}
    \cup {Document(<<s, MonitorNode>>) : s \in DefectiveSources}

\* The keys of the largest map of the sources of data.
RECURSIVE MostKeys(_, _)
MostKeys(sources, i) ==
    IF i > Len(sources) THEN 1
    ELSE LET labels  == Cardinality(DOMAIN sources[i].Attributes.Labels)
             metrics == Cardinality(DOMAIN sources[i].Attributes.Metrics)
             rest    == MostKeys(sources, i + 1)
             here    == IF labels > metrics THEN labels ELSE metrics
         IN  IF here > rest THEN here ELSE rest

\* The slots the range loops of one run of LoadConfig on data may start at.
RangeSlots(data) ==
    [1..Len(data.Sources) ->
        [merge : 0..(MostKeys(data.Sources, 1) - 1),
         metrics : 0..(MostKeys(data.Sources, 1) - 1),
         labels : 0..(MostKeys(data.Sources, 1) - 1)]]

InitLoad ==
    /\ metricsSources = <<>>
    /\ ExporterIdle
    /\ ParseIdle
    /\ ExtractIdle
    /\ configData \in Documents
    /\ loadRuns = <<>>

\* LoadConfig runs on the document, a first and a second time.
LoadConfigRun ==
    /\ Len(loadRuns) <= 1
    /\ \E slots \in RangeSlots(configData) :
           loadRuns' = Append(loadRuns, LoadConfig(configData, slots))
    /\ UNCHANGED configData
    /\ UNCHANGED <<parseVars, extractVars, describeVars>>
    /\ UNCHANGED scrapeVars

SpecLoad == InitLoad /\ [][LoadConfigRun]_vars

(***************************************************************************)
(* Properties of the load                                                  *)
(***************************************************************************)

\* C8 as claimed: two runs of LoadConfig on a valid document return the
\* same sources in the same order, each with the same search request (its
\* attribute list included), the same metric attributes and the same
\* ordered label names in every descriptor.
C8_LoadDeterministic ==
    (Len(loadRuns) > 1 /\ ~loadRuns[1].err) =>
        /\ ~loadRuns[Len(loadRuns)].err
        /\ loadRuns[Len(loadRuns)].sources = loadRuns[1].sources

\* Two distinct attributes of the label mapping of the source s have the
\* same label name.
LabelNameTwice(s) ==
    \E a \in DOMAIN s.Attributes.Labels : \E b \in DOMAIN s.Attributes.Labels :
        a # b /\ s.Attributes.Labels[a] = s.Attributes.Labels[b]

\* C9: a document with a source whose label mapping gives two attributes
\* the same label name fails to load, and in every source of a load that
\* succeeded the label names of the label mapping are pairwise distinct.
C9_DuplicateLabelFailsLoad ==
    \A k \in 1..Len(loadRuns) :
        /\ (configData.WellTyped /\ \E i \in 1..Len(configData.Sources) :
                                         /\ configData.Sources[i].WellTyped
                                         /\ configData.Sources[i].Attributes.WellTyped
                                         /\ LabelNameTwice(configData.Sources[i]))
               => loadRuns[k].err
        /\ ~loadRuns[k].err =>
               \A i \in 1..Len(loadRuns[k].sources) :
                   LET mapping == loadRuns[k].sources[i].LabelAttributes
                   IN  \A a \in DOMAIN mapping : \A b \in DOMAIN mapping :
                           a # b => mapping[a] # mapping[b]

\* The document whose one source maps cn and uid to user, and has no other
\* defect, has failed to load; it loads with uid mapped to another name.
C9_Witness ==
    /\ configData =
           Document(<<SourceNode("users", StringPtr("ou=people"),
                                 ("cn" :> "user") @@ ("uid" :> "user"),
                                 "loginCount" :> MetricNode("logins", "counter", <<>>))>>)
    /\ Len(loadRuns) > 1
    /\ \A k \in 1..Len(loadRuns) : loadRuns[k].err
    /\ \A slots \in RangeSlots(configData) :
           ~LoadConfig(Document(<<SourceNode("users", StringPtr("ou=people"),
                                            ("cn" :> "user") @@ ("uid" :> "login"),
                                            "loginCount" :> MetricNode("logins", "counter",
                                                                      <<>>))>>),
                       slots).err

\* A label of a metric of the document is empty or has white space around
\* it.
MetricLabelMalformed ==
    /\ configData.WellTyped
    /\ \E i \in 1..Len(configData.Sources) :
           /\ configData.Sources[i].WellTyped
           /\ configData.Sources[i].Attributes.WellTyped
           /\ \E attr \in DOMAIN configData.Sources[i].Attributes.Metrics :
                  LET metric == configData.Sources[i].Attributes.Metrics[attr]
                  IN  /\ metric.WellTyped
                      /\ \E j \in 1..Len(metric.Labels) :
                             \/ metric.Labels[j] = ""
                             \/ TrimSpace(metric.Labels[j]) # metric.Labels[j]

\* C10 as claimed: a document in which a label of a metric is empty or has
\* white space around it fails to load.
C10_MetricLabelsWellFormed ==
    \A k \in 1..Len(loadRuns) : MetricLabelMalformed => loadRuns[k].err

\* C11: a document with a defective source fails to load, also next to a
\* valid source; a failed load returns no source at all, and a load that
\* succeeds returns one source for every source of the document.
C11_ValidationEagerAndTotal ==
    \A k \in 1..Len(loadRuns) :
        /\ (configData.WellTyped /\ \E i \in 1..Len(configData.Sources) :
                                         configData.Sources[i] \in DefectiveSources)
               => loadRuns[k].err
        /\ loadRuns[k].err => loadRuns[k].sources = <<>>
        /\ ~loadRuns[k].err => Len(loadRuns[k].sources) = Len(configData.Sources)

\* The valid source monitor followed by users with the unknown scope tree:
\* the load has failed and returned no source, though monitor alone loads.
C11_Witness ==
    /\ configData = Document(<<MonitorNode, [UsersNode EXCEPT !.Scope = StringPtr("tree")]>>)
    /\ Len(loadRuns) > 0
    /\ \A k \in 1..Len(loadRuns) : loadRuns[k].err /\ loadRuns[k].sources = <<>>
    /\ \A slots \in RangeSlots(Document(<<MonitorNode>>)) :
           ~LoadConfig(Document(<<MonitorNode>>), slots).err

(***************************************************************************)
(* Unknown keys, in the document and in the output of a translator         *)
(***************************************************************************)

\* A document is loaded, or Parse is called.
InitSchema == InitLoad \/ InitParse

NextSchema == LoadConfigRun \/ ParseCall

SpecSchema == InitSchema /\ [][NextSchema]_vars

\* The sets of unknown keys of the source s, one for each level that has
\* any: the source, its attributes, each of its metrics.
UnknownKeySets(s) ==
    ({s.X, s.Attributes.X} \cup {s.Attributes.Metrics[attr].X :
                                     attr \in DOMAIN s.Attributes.Metrics}) \ {{}}

\* The sources whose only defect is an unknown key.
UnknownKeySources ==
    { [UsersNode EXCEPT !.X = {"serach"}],
      [UsersNode EXCEPT !.X = {"serach", "filtre"}],
      [UsersNode EXCEPT !.Attributes.X = {"metric"}],
      [UsersNode EXCEPT !.Attributes.Metrics["loginCount"].X = {"kind"}],
      [UsersNode EXCEPT !.X = {"serach"},
                        !.Attributes.Metrics["loginCount"].X = {"kind"}] }

\* C12: a document with an unknown key at any level fails to load; when an
\* unknown key is its only defect the error names all the unknown keys of
\* one level; and a translator whose rendered output has a result with an
\* unknown field makes Parse fail without any sample.
C12_StrictSchema ==
    /\ \A k \in 1..Len(loadRuns) :
           /\ (\E i \in 1..Len(configData.Sources) :
                   UnknownKeySets(configData.Sources[i]) # {}) => loadRuns[k].err
           /\ ( /\ \E i \in 1..Len(configData.Sources) :
                       configData.Sources[i] \in UnknownKeySources
                /\ \A i \in 1..Len(configData.Sources) :
                       configData.Sources[i] \in UnknownKeySources \cup {UsersNode, MonitorNode} )
                  => /\ loadRuns[k].err
                     /\ \E i \in 1..Len(configData.Sources) :
                            loadRuns[k].fields \in UnknownKeySets(configData.Sources[i])
    /\ ( /\ Called
         /\ ~parseCall.a.translator.nil
         /\ Len(parseCall.values) > 0
         /\ ~parseCall.a.translator.missingKey
         /\ parseCall.a.translator.yamlOK
         /\ \E k \in 1..Len(parseCall.a.translator.results) :
                parseCall.a.translator.results[k].X # {} )
           => parseRet.status = "err" /\ parseRet.metrics = <<>>

\* The document whose source has the two unknown keys serach and filtre
\* has failed to load with an error naming both.
C12_Witness ==
    /\ configData = Document(<<[UsersNode EXCEPT !.X = {"serach", "filtre"}]>>)
    /\ Len(loadRuns) > 0
    /\ loadRuns[1].err
    /\ loadRuns[1].fields = {"serach", "filtre"}

(***************************************************************************)
(* Attributes of an entry that the source does not know                    *)
(***************************************************************************)

\* The entry e holds an attribute that is neither a metric attribute nor a
\* label attribute of m.
HasUnknownAttribute(m, e) ==
    \E j \in 1..Len(e) :
        /\ e[j].Name \notin DOMAIN m.MetricAttributes
        /\ e[j].Name \notin DOMAIN m.LabelAttributes

\* Every metric attribute of m in the entry e holds the one value "4".
MetricsParse(m, e) ==
    \A j \in 1..Len(e) : e[j].Name \in DOMAIN m.MetricAttributes => e[j].Values = <<"4">>

\* C13: a result with an entry holding an attribute the source knows
\* neither as metric nor as label makes scrapeMetrics return an error; a
\* result whose entries hold only known attributes, their labels complete
\* and their metric values parsable, is extracted without error, the label
\* attributes adding no sample: one sample for every metric attribute.
C13_UnknownAttributeIsError ==
    Scraped =>
        /\ (\E k \in 1..Len(scrapeCall.result) :
                HasUnknownAttribute(scrapeCall.m, scrapeCall.result[k]))
               => scrapeRet.status = "err"
        /\ (\A k \in 1..Len(scrapeCall.result) :
                /\ ~HasUnknownAttribute(scrapeCall.m, scrapeCall.result[k])
                /\ LabelsExactlyOnce(scrapeCall.m, scrapeCall.result[k])
                /\ MetricsParse(scrapeCall.m, scrapeCall.result[k]))
               => /\ scrapeRet.status = "ok"
                  /\ Len(scrapeRet.out) =
                         MetricAttributeCount(scrapeCall.m, scrapeCall.result, 1)

\* An entry with its label cn, its metric loginCount and the attribute mail
\* the source does not know: an error.
C13_Witness ==
    /\ Scraped
    /\ scrapeCall.m = PeopleSource
    /\ scrapeCall.result =
           << <<EntryAttribute("cn", <<"alice">>), EntryAttribute("loginCount", <<"4">>),
                EntryAttribute("mail", <<"alice@example.com">>)>> >>
    /\ scrapeRet.status = "err"

(***************************************************************************)
(* The samples of a translated attribute                                   *)
(***************************************************************************)

\* C14: with a translator, a Parse that succeeds returns as many samples as
\* the translator rendered results, in rendered order: the i-th sample has
\* the descriptor of the attribute, the value of the i-th result, and for
\* every declared label the i-th result sets, the value it sets.
C14_OneSamplePerResult ==
    (Called /\ ~parseCall.a.translator.nil /\ parseRet.status = "ok") =>
        LET results  == parseCall.a.translator.results
            declared == parseCall.a.labels
        IN  /\ Len(parseRet.metrics) = Len(results)
            /\ \A i \in 1..Len(results) :
                   /\ parseRet.metrics[i].desc = parseCall.a.Desc
                   /\ parseRet.metrics[i].val = results[i].Value
                   /\ \A j \in 1..Len(declared) :
                          declared[j] \in DOMAIN results[i].Labels =>
                              parseRet.metrics[i].labelValues[j] =
                                  results[i].Labels[declared[j]]

\* The rendering [{value: 2, labels: {state: ok}}, {value: 5, labels:
\* {state: fail}}] for a metric with the labels user and state: two
\* samples, 2 with state ok, then 5 with state fail.
C14_Witness ==
    /\ Called
    /\ parseCall.a.translator = StatusTemplate
    /\ parseCall.a.labels = <<"user", "state">>
    /\ parseRet.status = "ok"
    /\ Len(parseRet.metrics) = 2
    /\ parseRet.metrics[1].val = "2" /\ parseRet.metrics[1].labelValues = <<"alice", "ok">>
    /\ parseRet.metrics[2].val = "5" /\ parseRet.metrics[2].labelValues = <<"alice", "fail">>

\* C16 as claimed: every sample of a gauge attribute has the gauge value
\* type and every sample of a counter attribute the counter value type,
\* with and without translator.
C16_ValueTypeMatchesKind ==
    (Called /\ parseRet.status = "ok") =>
        \A i \in 1..Len(parseRet.metrics) :
            parseRet.metrics[i].valType =
                IF parseCall.a.kind = "counter" THEN "CounterValue" ELSE "GaugeValue"

(***************************************************************************)
(* Describe                                                                *)
(***************************************************************************)

\* The metric attributes the exporter is configured with, each as the pair
\* of the index of its source and its LDAP attribute name.
ConfiguredAttributes ==
    UNION {{<<i, a>> : a \in DOMAIN metricsSources[i].MetricAttributes} :
           i \in 1..Len(metricsSources)}

DescOf(p) == metricsSources[p[1]].MetricAttributes[p[2]].Desc

\* Every configured metric attribute has its descriptor in sent exactly
\* once, and sent holds nothing else.
EnumeratedOnce(sent) ==
    /\ Len(sent) = Cardinality(ConfiguredAttributes)
    /\ \A p \in ConfiguredAttributes :
           Cardinality({j \in 1..Len(sent) : sent[j] = DescOf(p)})
               = Cardinality({q \in ConfiguredAttributes : DescOf(q) = DescOf(p)})

\* C15: whenever Describe is called (before, during, between or after
\* scrape cycles) it sends the descriptor of every configured metric
\* attribute of every source exactly once, so always the same set; the
\* call issues no search and leaves the four self-metrics as they were.
C15_DescribeEnumeratesDescriptors ==
    /\ [](described.called => EnumeratedOnce(described.descs))
    /\ [][described' # described =>
              UNCHANGED <<totalScrapes, totalErrors, scrapeError, duration,
                          outstanding, issued, answered, ch>>]_vars

\* Describe has been called after a cycle in which a source failed, and
\* sent the three descriptors of the two sources.
C15_Witness ==
    /\ described.called
    /\ Len(described.descs) = 3
    /\ {described.descs[j].fqName : j \in 1..3}
           = {"ldap_logins", "ldap_users_status", "ldap_monitor_threads"}
    /\ totalScrapes = 1
    /\ totalErrors = 1
    /\ \A c \in Collectors : pc[c] \in {"idle", "done"}

(***************************************************************************)
(* The searches of a cycle                                                 *)
(***************************************************************************)

\* The searches of c so far are those of the first sources, in the
\* configured order, and each was issued after the one before had been
\* answered and its result extracted.
SearchesSerial(c) ==
    /\ Len(issued[c]) <= Len(metricsSources)
    /\ issued[c] = [i \in 1..Len(issued[c]) |-> i]
    /\ Len(answered[c]) = IF c \in outstanding THEN Len(issued[c]) - 1 ELSE Len(issued[c])
    /\ pc[c] = "extract" => Len(issued[c]) = idx[c]

\* C17 as claimed: however a cycle ends, whatever the searches and
\* extractions of its earlier sources or of earlier cycles came to, it has
\* issued one search for every configured source, in the configured order
\* and one after the other.
C17_EverySourceSearchedInOrder ==
    \A c \in Collectors :
        /\ SearchesSerial(c)
        /\ CycleEnded(c) => issued[c] = [i \in 1..Len(metricsSources) |-> i]

\* The searches are serial in every state, and a loop that is over (no
\* panic) has issued one search per source, in a second cycle as in a first.
SearchesSerialAndComplete ==
    \A c \in Collectors :
        /\ SearchesSerial(c)
        /\ LoopOver(c) => issued[c] = [i \in 1..Len(metricsSources) |-> i]

(***************************************************************************)
(* Collect calls that overlap                                              *)
(***************************************************************************)

\* C18: nothing serializes Collect calls that run at the same time: a call
\* that has reached the search of a source issues it whether or not another
\* call has a search outstanding on the connection, so the calls may both
\* have one outstanding (the witness).
C18_CollectNotSerialized ==
    \A c \in Collectors :
        (pc[c] = "search" /\ ~crashed) => ENABLED IssueSearch(c)

\* Both Collect calls have a search outstanding on the one connection.
C18_Witness ==
    /\ outstanding = Collectors
    /\ \A c \in Collectors : pc[c] = "waiting"

(***************************************************************************)
(* The self-metrics of a cycle                                             *)
(***************************************************************************)

SelfMetricNames ==
    <<"ldap_exporter_last_scrape_duration_seconds", "ldap_exporter_scrapes_total",
      "ldap_exporter_errors_total", "ldap_exporter_last_scrape_error">>

\* What c has sent ends with the four self-metrics, once each, after every
\* sample of a source, and they carry the failures of this very cycle.
SelfMetricsSentLast(c) ==
    LET n == Len(ch[c])
    IN  /\ n >= 4
        /\ \A j \in 1..(n - 4) :
               \A k \in 1..4 : ch[c][j].desc.fqName # SelfMetricNames[k]
        /\ \A k \in 1..4 : ch[c][n - 4 + k].desc.fqName = SelfMetricNames[k]
        /\ ch[c][n - 3].val = "measured"
        /\ ch[c][n - 2].val >= 1
        /\ ch[c][n - 1].val >= Len(errlog[c])
        /\ ch[c][n].val = Len(errlog[c])

\* No Collect call has run since that of c, and none but c's has run at all.
OnlyCollector(c) == \A d \in Collectors \ {c} : pc[d] = "idle"

\* The counters c has sent are those of all cycles up to and including its
\* own.
CountersIncludeCycle(c) ==
    LET n == Len(ch[c])
    IN  /\ ch[c][n - 2].val = Len(history)
        /\ ch[c][n - 1].val = SumOfLengths(history)
        /\ history[Len(history)] = errlog[c]

\* C19 as claimed: every Collect call that is over has sent the four
\* self-metrics, once each and after all samples of its sources, with
\* values that include the cycle itself.
C19_SelfMetricsOncePerCollect ==
    \A c \in Collectors :
        pc[c] \in {"done", "panicked"} =>
            /\ SelfMetricsSentLast(c)
            /\ OnlyCollector(c) => CountersIncludeCycle(c)

\* Every Collect call that returns has done so.
ReturnedCollectSentSelfMetrics ==
    \A c \in Collectors :
        pc[c] = "done" =>
            /\ SelfMetricsSentLast(c)
            /\ OnlyCollector(c) => CountersIncludeCycle(c)

=============================================================================
